---- MODULE Spec2Model ----
(***************************************************************************)
(* Model of the blog API worker (src/src/index.ts over src/schema.sql).    *)
(*                                                                         *)
(* Text is a sequence of one-character strings, so that the string         *)
(* operations of the handlers (trim, split, substring, replace, case       *)
(* conversion) are computed character by character as the code computes    *)
(* them.  A timestamp is the millisecond count of the clock it was read    *)
(* from (toISOString is one-to-one on it).  SQL NULL is NullStr in a text  *)
(* column and NullId in a timestamp or number column.                      *)
(***************************************************************************)
EXTENDS Integers, Sequences, FiniteSets, TLC

\* ------------------------------------------------------------------------
\* Bounds of the model
\* ------------------------------------------------------------------------

\* Largest number of entries of a postTexts array.
MaxTexts == 2

\* Largest number of Posts rows the store is let to hold: a request is taken
\* while there is room for a Post per entry of its postTexts.
MaxPosts == 2

\* The clock stops advancing at this many milliseconds.
MaxClock == 1

\* Largest number of rows a table other than Blogs is let to hold when every
\* resource takes requests.
MaxRows == 1

\* The TagIds of requests and of rows run from 1 to one past this when only
\* Blogs, Tags and Posts take requests.
MaxTags == 2

\* ------------------------------------------------------------------------
\* Program constants
\* ------------------------------------------------------------------------

\* substring(0, 50) and title.length === 50
TitleLen == 50

\* postText.length > 150 and substring(0, 150)
ExcerptLen == 150

NullId == -1

NullStr == <<"NULL">>

\* ------------------------------------------------------------------------
\* JavaScript string operations
\* ------------------------------------------------------------------------

Rep(c, n) == [k \in 1..n |-> c]

Min(a, b) == IF a < b THEN a ELSE b

UpperChars ==
  <<"A","B","C","D","E","F","G","H","I","J","K","L","M",
    "N","O","P","Q","R","S","T","U","V","W","X","Y","Z">>

LowerChars ==
  <<"a","b","c","d","e","f","g","h","i","j","k","l","m",
    "n","o","p","q","r","s","t","u","v","w","x","y","z">>

DigitChars == <<"0","1","2","3","4","5","6","7","8","9">>

Range(s) == {s[k] : k \in 1..Len(s)}

UpperSet == Range(UpperChars)

LowerSet == Range(LowerChars)

DigitSet == Range(DigitChars)

IndexIn(c, alphabet) == CHOOSE k \in 1..Len(alphabet) : alphabet[k] = c

ToLowerChar(c) == IF c \in UpperSet THEN LowerChars[IndexIn(c, UpperChars)] ELSE c

ToUpperChar(c) == IF c \in LowerSet THEN UpperChars[IndexIn(c, LowerChars)] ELSE c

ToLowerCase(s) == [k \in 1..Len(s) |-> ToLowerChar(s[k])]

\* \s of a regular expression, and the characters trim() strips
SpaceSet == {" ", "\t", "\n", "\r"}

IsSpace(c) == c \in SpaceSet

\* \w of a regular expression
WordSet == UpperSet \cup LowerSet \cup DigitSet \cup {"_"}

\* s.substring(0, n)
Substring(s, n) == SubSeq(s, 1, Min(n, Len(s)))

\* s.slice(n)
Slice(s, n) == SubSeq(s, n + 1, Len(s))

\* The least position whose character is in chars; Len(s) + 1 if none
FirstIn(s, chars) ==
  CHOOSE k \in 1..(Len(s) + 1) :
    /\ k = Len(s) + 1 \/ s[k] \in chars
    /\ \A j \in 1..(k - 1) : s[j] \notin chars

\* The least position whose character is not in chars; Len(s) + 1 if none
FirstNotIn(s, chars) ==
  CHOOSE k \in 1..(Len(s) + 1) :
    /\ k = Len(s) + 1 \/ s[k] \notin chars
    /\ \A j \in 1..(k - 1) : s[j] \in chars

\* The greatest position whose character is not in chars; 0 if none
LastNotIn(s, chars) ==
  CHOOSE k \in 0..Len(s) :
    /\ k = 0 \/ s[k] \notin chars
    /\ \A j \in (k + 1)..Len(s) : s[j] \in chars

\* The greatest position whose character is in chars; 0 if none
LastIn(s, chars) ==
  CHOOSE k \in 0..Len(s) :
    /\ k = 0 \/ s[k] \in chars
    /\ \A j \in (k + 1)..Len(s) : s[j] \notin chars

\* s with the characters of chars stripped from both ends
Strip(s, chars) == SubSeq(s, FirstNotIn(s, chars), LastNotIn(s, chars))

\* s.trim()
Trim(s) == Strip(s, SpaceSet)

\* s.endsWith(t)
EndsWith(s, t) ==
  /\ Len(t) <= Len(s)
  /\ SubSeq(s, Len(s) - Len(t) + 1, Len(s)) = t

\* t occurs in s at position k
OccursAt(s, t, k) == k + Len(t) - 1 <= Len(s) /\ SubSeq(s, k, k + Len(t) - 1) = t

\* s.indexOf(t) + 1: the least position at which t occurs in s; 0 if none
IndexOf(s, t) ==
  IF \E k \in 1..Len(s) : OccursAt(s, t, k)
  THEN CHOOSE k \in 1..Len(s) :
         OccursAt(s, t, k) /\ \A j \in 1..(k - 1) : ~OccursAt(s, t, j)
  ELSE 0

\* s.replace(t, '') with a string pattern: the first occurrence only
RemoveFirst(s, t) ==
  LET k == IndexOf(s, t)
  IN  IF k = 0 THEN s ELSE SubSeq(s, 1, k - 1) \o SubSeq(s, k + Len(t), Len(s))

TerminatorSet == {".", "!", "?"}

\* s.split(/[.!?]/)[0]
FirstSentence(s) == SubSeq(s, 1, FirstIn(s, TerminatorSet) - 1)

\* Decimal digits of a natural number, as '' + n gives them
RECURSIVE Digits(_)
Digits(n) ==
  IF n < 10 THEN <<DigitChars[n + 1]>>
  ELSE Digits(n \div 10) \o <<DigitChars[(n % 10) + 1]>>

\* s.replace(/[^x]/g, '') for a character class x: drop the other characters
KeepOnly(s, chars) == SelectSeq(s, LAMBDA c : c \in chars)

\* s.replace(/x+/g, r) for a character class x: every maximal run becomes r
CollapseRuns(s, chars, r) ==
  LET EndsRun(k) == ~(s[k] \in chars /\ k < Len(s) /\ s[k + 1] \in chars)
      kept == SelectSeq([k \in 1..Len(s) |-> k], EndsRun)
  IN  [j \in 1..Len(kept) |-> IF s[kept[j]] \in chars THEN r ELSE s[kept[j]]]

\* s.replace(/[^x]/g, r) for a character class x: every other character becomes r
ReplaceOthers(s, chars, r) == [k \in 1..Len(s) |-> IF s[k] \in chars THEN s[k] ELSE r]

\* s.replace(/^-+|-+$/g, '')
StripHyphens(s) == Strip(s, {"-"})

\* ------------------------------------------------------------------------
\* new URL(blogUrl).hostname
\* ------------------------------------------------------------------------

SchemeSep == <<":", "/", "/">>

HostEndSet == {"/", "?", "#", ":"}

\* What follows "scheme://"
AfterScheme(s) == SubSeq(s, IndexOf(s, SchemeSep) + Len(SchemeSep), Len(s))

\* The host of the authority: up to the port, path, query or fragment
HostPart(s) == SubSeq(AfterScheme(s), 1, FirstIn(AfterScheme(s), HostEndSet) - 1)

\* Variant: new URL(s) throws for no string
UrlParsesAlways(s) == TRUE

\* new URL(s) does not throw: a scheme of letters, "://" and a host
UrlParses(s) ==
  LET k == IndexOf(s, SchemeSep)
  IN  /\ k > 1
      /\ \A j \in 1..(k - 1) : s[j] \in UpperSet \cup LowerSet
      /\ HostPart(s) # <<>>
      /\ \A j \in 1..Len(HostPart(s)) : ~IsSpace(HostPart(s)[j])

\* urlObj.hostname: the parser lower-cases the host
Hostname(s) == ToLowerCase(HostPart(s))

\* ------------------------------------------------------------------------
\* Fields derived by handleSimplePost
\* ------------------------------------------------------------------------

WwwDot == <<"w", "w", "w", ".">>

\* name.replace(/\.[^/.]+$/, ''): the last dot and what follows it, when
\* something follows it
RemoveExtension(name) ==
  LET k == LastIn(name, {".", "/"})
  IN  IF k >= 1 /\ k < Len(name) /\ name[k] = "." THEN SubSeq(name, 1, k - 1) ELSE name

\* urlObj.hostname.replace('www.', '').replace(/\.[^/.]+$/, '')
BlogNameOf(hostname) == RemoveExtension(RemoveFirst(hostname, WwwDot))

\* [a-z0-9]
LowerAlnumSet == LowerSet \cup DigitSet

\* Variant: a run of such characters becomes one hyphen
BlogSlugCollapsed(blogName) ==
  LET lower == ToLowerCase(blogName)
  IN  CollapseRuns(lower, Range(lower) \ LowerAlnumSet, "-")

\* blogName.toLowerCase().replace(/[^a-z0-9]/g, '-')
BlogSlugOf(blogName) == ReplaceOthers(ToLowerCase(blogName), LowerAlnumSet, "-")

\* blogName.charAt(0).toUpperCase() + blogName.slice(1)
Capitalize(blogName) ==
  IF blogName = <<>> THEN <<>>
  ELSE <<ToUpperChar(blogName[1])>> \o Slice(blogName, 1)

AutoBlogPrefix ==
  <<"A","u","t","o","-","c","r","e","a","t","e","d"," ","b","l","o","g"," ","f","o","r"," ">>

\* `Auto-created blog for ${urlObj.hostname}`
BlogDescriptionOf(hostname) == AutoBlogPrefix \o hostname

DefaultAuthorName == <<"D","e","f","a","u","l","t"," ","A","u","t","h","o","r">>

DefaultAuthorBio ==
  <<"A","u","t","o","-","c","r","e","a","t","e","d"," ","d","e","f","a","u","l","t"," ",
    "a","u","t","h","o","r">>

\* 'author@' + new URL(requestData.blogUrl).hostname
AuthorEmailOf(hostname) == <<"a","u","t","h","o","r","@">> \o hostname

GeneralName == <<"G","e","n","e","r","a","l">>

GeneralSlug == <<"g","e","n","e","r","a","l">>

Ellipsis == <<".", ".", ".">>

\* `Post ${i + 1}`
FallbackTitle(i) == <<"P","o","s","t"," ">> \o Digits(i + 1)

\* Variant: the cut sentence is not trimmed
TitleBaseUntrimmed(postText) == Substring(FirstSentence(postText), TitleLen)

\* postText.split(/[.!?]/)[0].substring(0, 50).trim()
TitleBase(postText) == Trim(Substring(FirstSentence(postText), TitleLen))

\* The title of the post made from the trimmed text at 0-based position i
PostTitle(postText, i) ==
  LET base == TitleBase(postText)
      title == IF Len(base) = TitleLen /\ ~EndsWith(base, Ellipsis)
               THEN base \o Ellipsis
               ELSE base
  IN  IF title = <<>> THEN FallbackTitle(i) ELSE title

\* [\w\s-]
SlugCharSet == WordSet \cup SpaceSet \cup {"-"}

\* title.toLowerCase().replace(/[^\w\s-]/g, '').replace(/\s+/g, '-')
\*      .replace(/-+/g, '-').replace(/^-+|-+$/g, '')
SlugBase(title) ==
  StripHyphens(
    CollapseRuns(
      CollapseRuns(KeepOnly(ToLowerCase(title), SlugCharSet), SpaceSet, "-"),
      {"-"}, "-"))

\* Variant: the slug ends with the timestamp, without the loop index
PostSlugNoIndex(title, ms, i) == SlugBase(title) \o <<"-">> \o Digits(ms)

\* ... + '-' + Date.now() + '-' + i
PostSlug(title, ms, i) == SlugBase(title) \o <<"-">> \o Digits(ms) \o <<"-">> \o Digits(i)

\* Variant: the cut text is not trimmed before the ellipsis is added
PostExcerptUntrimmed(postText) ==
  IF Len(postText) > ExcerptLen
  THEN Substring(postText, ExcerptLen) \o Ellipsis
  ELSE postText

\* postText.length > 150 ? postText.substring(0, 150).trim() + '...' : postText
PostExcerpt(postText) ==
  IF Len(postText) > ExcerptLen
  THEN Trim(Substring(postText, ExcerptLen)) \o Ellipsis
  ELSE postText

\* ------------------------------------------------------------------------
\* The store (src/schema.sql) and the last request and response
\* ------------------------------------------------------------------------

VARIABLES
  Blogs,        \* rows of table Blogs
  Authors,      \* rows of table Authors
  Categories,   \* rows of table Categories
  Posts,        \* rows of table Posts
  Tags,         \* rows of table Tags
  PostTags,     \* rows of table PostTags
  Comments,     \* rows of table Comments
  now,          \* the clock, in milliseconds
  req,          \* the request handled last
  resp,         \* its response: status and JSON body
  fault,        \* the store call that failed while handling it, if any
  ins,          \* the rows it inserted, per table
  last,         \* blogUrl of the request answered before, if a successful ingestion
  pending       \* per client, the request it has in flight between two store calls

vars ==
  <<Blogs, Authors, Categories, Posts, Tags, PostTags, Comments,
    now, req, resp, fault, ins, last, pending>>

\* The tables as one value
Store ==
  [Blogs |-> Blogs, Authors |-> Authors, Categories |-> Categories, Posts |-> Posts,
   Tags |-> Tags, PostTags |-> PostTags, Comments |-> Comments]

NoRow == [none |-> TRUE]

\* meta.last_row_id of an INSERT into a table with an INTEGER PRIMARY KEY
NextRowId(ids) == IF ids = {} THEN 1 ELSE 1 + (CHOOSE a \in ids : \A b \in ids : b <= a)

\* .first() of a query without ORDER BY matching `rows`: the store scans a table,
\* or an index on a foreign key, in rowid order, so the row of least id comes first
First(rows, key) ==
  IF rows = {} THEN NoRow
  ELSE CHOOSE r \in rows : \A q \in rows : r[key] <= q[key]

\* A clock read `tick` milliseconds after the clock stood at `clock`
ReadClock(clock, tick) == Min(clock + tick, MaxClock)

\* createErrorResponse(message, status)
ErrorResponse(message, status) == [status |-> status, body |-> [error |-> message]]

\* createSuccessResponse(data)
SuccessResponse(data) == [status |-> 200, body |-> data]

NoFault == [stage |-> "none", idx |-> 0]

\* The store call `stage` (of loop index idx) is the one that throws
Fails(ch, stage, idx) == ch.fault = [stage |-> stage, idx |-> idx]

\* JSON values of a request body: a missing field, a string, an array of strings
Missing == [tag |-> "missing", items |-> <<>>]

JsonString(s) == [tag |-> "string", items |-> s]

JsonArray(a) == [tag |-> "array", items |-> a]

\* A number of a request body
JsonNumber(n) == [tag |-> "number", items |-> n]

\* A timestamp of a request body: the ISO string of the instant ms
JsonTime(ms) == [tag |-> "time", items |-> ms]

\* !v of a JSON value
Falsy(v) ==
  \/ v.tag = "missing"
  \/ v.tag = "string" /\ v.items = <<>>
  \/ v.tag = "number" /\ v.items = 0

\* Array.isArray(v)
IsArray(v) == v.tag = "array"

\* SELECT p.*, b.Name as BlogName, a.Name as AuthorName, c.Name as CategoryName
\* FROM Posts p LEFT JOIN Blogs b ... LEFT JOIN Authors a ... LEFT JOIN Categories c ...
JoinedName(rows, key, id) ==
  LET hit == {r \in rows : r[key] = id}
  IN  IF hit = {} THEN NullStr ELSE (CHOOSE r \in hit : TRUE).Name

EnrichPost(db, p) ==
  [post |-> p,
   BlogName |-> JoinedName(db.Blogs, "BlogId", p.BlogId),
   AuthorName |-> JoinedName(db.Authors, "AuthorId", p.AuthorId),
   CategoryName |-> JoinedName(db.Categories, "CategoryId", p.CategoryId)]

\* UNIQUE: no two rows have the same value in column key
UniqueIn(rows, key) == \A r, q \in rows : r[key] = q[key] => r = q

\* Variant: the store does not enforce UNIQUE
UniqueNotChecked(db) == TRUE

\* Blogs.Slug UNIQUE and Tags.Name UNIQUE
UniqueHolds(db) == UniqueIn(db.Blogs, "Slug") /\ UniqueIn(db.Tags, "Name")

\* ------------------------------------------------------------------------
\* handleSimplePost
\* ------------------------------------------------------------------------

\* Variant: the calls of a request run in one transaction, rolled back on error
CaughtErrorRolledBack(start, db, clock, cause) ==
  [db |-> start, now |-> clock, thrown |-> cause,
   resp |-> ErrorResponse("Failed to create posts", 500)]

\* The catch block, reached with the store at db from a request that found it at
\* `start`: no transaction spans the calls, so whatever was written stays written
CaughtError(start, db, clock, cause) ==
  [db |-> db, now |-> clock, thrown |-> cause,
   resp |-> ErrorResponse("Failed to create posts", 500)]

\* A return statement: nothing was thrown
Returned(db, clock, response) ==
  [db |-> db, now |-> clock, thrown |-> "none", resp |-> response]

\* What a store call throws when it is the failing one
StoreFault == "store"

\* Variant: the insert leaves IsPublished and PublishedAt to the column defaults
NewPostRowDraft(db, ctx, postText, i, slugTime, currentTime) ==
  LET title == PostTitle(postText, i)
  IN  [PostId |-> NextRowId({p.PostId : p \in db.Posts}),
       BlogId |-> ctx.blog.BlogId,
       AuthorId |-> ctx.author.AuthorId,
       CategoryId |-> ctx.category.CategoryId,
       Title |-> title,
       Slug |-> PostSlug(title, slugTime, i),
       Content |-> postText,
       Excerpt |-> PostExcerpt(postText),
       PublishedAt |-> NullId,
       IsPublished |-> 0,
       Views |-> 0,
       ExternalId |-> NullStr,
       CreatedAt |-> currentTime,
       UpdatedAt |-> currentTime]

\* The row the post loop binds into INSERT INTO Posts, for trimmed text at index i
NewPostRow(db, ctx, postText, i, slugTime, currentTime) ==
  LET title == PostTitle(postText, i)
  IN  [PostId |-> NextRowId({p.PostId : p \in db.Posts}),
       BlogId |-> ctx.blog.BlogId,
       AuthorId |-> ctx.author.AuthorId,
       CategoryId |-> ctx.category.CategoryId,
       Title |-> title,
       Slug |-> PostSlug(title, slugTime, i),
       Content |-> postText,
       Excerpt |-> PostExcerpt(postText),
       PublishedAt |-> currentTime,
       IsPublished |-> 1,
       Views |-> 0,
       ExternalId |-> NullStr,
       CreatedAt |-> currentTime,
       UpdatedAt |-> currentTime]

\* Variant: blank entries are not skipped
SkipsNothing(postText) == FALSE

\* if (!postText) continue;
SkipsText(postText) == postText = <<>>

\* The loop over postTexts from index i on; `created` is createdPosts so far
RECURSIVE PostLoop(_, _, _, _, _, _)
PostLoop(i, texts, ctx, db, clock, created) ==
  IF i >= Len(texts)
  THEN Returned(db, clock,
                SuccessResponse([blog |-> ctx.blog, author |-> ctx.author,
                                 category |-> ctx.category,
                                 postsCreated |-> Len(created), posts |-> created]))
  ELSE
    LET postText == Trim(texts[i + 1])
    IN  IF SkipsText(postText)
        THEN PostLoop(i + 1, texts, ctx, db, clock, created)
        ELSE
          LET slugTime == ReadClock(clock, ctx.ch.tick)
              currentTime == ReadClock(slugTime, ctx.ch.tick)
              row == NewPostRow(db, ctx, postText, i, slugTime, currentTime)
              db2 == [db EXCEPT !.Posts = @ \cup {row}]
              newPost == First({p \in db2.Posts : p.PostId = row.PostId}, "PostId")
          IN  IF Fails(ctx.ch, "insertPost", i)
              THEN CaughtError(ctx.start, db, currentTime, StoreFault)
              ELSE IF Fails(ctx.ch, "readPost", i)
              THEN CaughtError(ctx.start, db2, currentTime, StoreFault)
              ELSE PostLoop(i + 1, texts, ctx, db2, currentTime,
                            Append(created, EnrichPost(db2, newPost)))

\* SELECT * FROM Categories WHERE BlogId = ? LIMIT 1
FindCategoryOfBlog(db, blogId) ==
  First({c \in db.Categories : c.BlogId = blogId}, "CategoryId")

\* Variant: the lookup of the blog's author never finds one
FindAuthorNever(db, blogId) == NoRow

\* SELECT * FROM Authors WHERE BlogId = ? LIMIT 1
FindAuthorOfBlog(db, blogId) == First({a \in db.Authors : a.BlogId = blogId}, "AuthorId")

\* SELECT * FROM Blogs WHERE Url = ?
FindBlogByUrl(db, url) == First({b \in db.Blogs : b.Url = url}, "BlogId")

\* The row of INSERT INTO Categories (BlogId, Name, Slug) VALUES (?, ?, ?)
DefaultCategoryRow(blogId, db) ==
  [CategoryId |-> NextRowId({c.CategoryId : c \in db.Categories}),
   BlogId |-> blogId,
   Name |-> GeneralName,
   Slug |-> GeneralSlug]

\* From the lookup of the Category on, the lookup having returned `found`: the
\* INSERT is a later store call than the lookup
AfterCategoryLookup(found, texts, ctx, db, clock) ==
  LET row == DefaultCategoryRow(ctx.blog.BlogId, db)
      db2 == [db EXCEPT !.Categories = @ \cup {row}]
      category == First({c \in db2.Categories : c.CategoryId = row.CategoryId}, "CategoryId")
  IN  IF found # NoRow
      THEN PostLoop(0, texts, [ctx EXCEPT !.category = found], db, clock, <<>>)
      ELSE IF Fails(ctx.ch, "insertCategory", 0)
      THEN CaughtError(ctx.start, db, clock, StoreFault)
      ELSE IF Fails(ctx.ch, "readCategory", 0)
      THEN CaughtError(ctx.start, db2, clock, StoreFault)
      ELSE IF category = NoRow
      THEN Returned(db2, clock, ErrorResponse("Failed to create or find category", 500))
      ELSE PostLoop(0, texts, [ctx EXCEPT !.category = category], db2, clock, <<>>)

\* From "Find or create a default category" to the post loop
WithAuthor(texts, ctx, db, clock) ==
  IF Fails(ctx.ch, "selectCategory", 0)
  THEN CaughtError(ctx.start, db, clock, StoreFault)
  ELSE AfterCategoryLookup(FindCategoryOfBlog(db, ctx.blog.BlogId), texts, ctx, db, clock)

\* The row of INSERT INTO Authors (BlogId, Name, Email, Bio, CreatedAt)
DefaultAuthorRow(url, blogId, db, createdAt) ==
  [AuthorId |-> NextRowId({a.AuthorId : a \in db.Authors}),
   BlogId |-> blogId,
   Name |-> DefaultAuthorName,
   Email |-> AuthorEmailOf(Hostname(url)),
   ProfileUrl |-> NullStr,
   Bio |-> DefaultAuthorBio,
   CreatedAt |-> createdAt]

\* From "Find or create a default author for this blog" on
WithBlog(url, texts, ctx, db, clock) ==
  LET found == FindAuthorOfBlog(db, ctx.blog.BlogId)
      createdAt == ReadClock(clock, ctx.ch.tick)
      row == DefaultAuthorRow(url, ctx.blog.BlogId, db, createdAt)
      db2 == [db EXCEPT !.Authors = @ \cup {row}]
      author == First({a \in db2.Authors : a.AuthorId = row.AuthorId}, "AuthorId")
  IN  IF Fails(ctx.ch, "selectAuthor", 0)
      THEN CaughtError(ctx.start, db, clock, StoreFault)
      ELSE IF found # NoRow
      THEN WithAuthor(texts, [ctx EXCEPT !.author = found], db, clock)
      ELSE IF ~UrlParses(url)
      THEN CaughtError(ctx.start, db, clock, "TypeError: Invalid URL")
      ELSE IF Fails(ctx.ch, "insertAuthor", 0)
      THEN CaughtError(ctx.start, db, createdAt, StoreFault)
      ELSE IF Fails(ctx.ch, "readAuthor", 0)
      THEN CaughtError(ctx.start, db2, createdAt, StoreFault)
      ELSE IF author = NoRow
      THEN Returned(db2, createdAt, ErrorResponse("Failed to create or find author", 500))
      ELSE WithAuthor(texts, [ctx EXCEPT !.author = author], db2, createdAt)

\* From the lookup of the Blog on, the lookup having returned `found`: the
\* INSERT is a later store call than the lookup
AfterBlogLookup(found, url, texts, ch, db, clock) ==
  LET ctx0 == [blog |-> NoRow, author |-> NoRow, category |-> NoRow, ch |-> ch, start |-> db]
      blogName == BlogNameOf(Hostname(url))
      createdAt == ReadClock(clock, ch.tick)
      row == [BlogId |-> NextRowId({b.BlogId : b \in db.Blogs}),
              Name |-> Capitalize(blogName),
              Slug |-> BlogSlugOf(blogName),
              Description |-> BlogDescriptionOf(Hostname(url)),
              Url |-> url,
              CreatedAt |-> createdAt]
      db2 == [db EXCEPT !.Blogs = @ \cup {row}]
      blog == First({b \in db2.Blogs : b.BlogId = row.BlogId}, "BlogId")
  IN  IF found # NoRow
      THEN WithBlog(url, texts, [ctx0 EXCEPT !.blog = found], db, clock)
      ELSE IF ~UrlParses(url)
      THEN CaughtError(db, db, clock, "TypeError: Invalid URL")
      ELSE IF Fails(ch, "insertBlog", 0)
      THEN CaughtError(db, db, createdAt, StoreFault)
      ELSE IF ~UniqueHolds(db2)
      THEN CaughtError(db, db, createdAt, "UNIQUE constraint failed: Blogs.Slug")
      ELSE IF Fails(ch, "readBlog", 0)
      THEN CaughtError(db, db2, createdAt, StoreFault)
      ELSE IF blog = NoRow
      THEN Returned(db2, createdAt, ErrorResponse("Failed to create or find blog", 500))
      ELSE WithBlog(url, texts, [ctx0 EXCEPT !.blog = blog], db2, createdAt)

\* From "Find or create blog based on URL" on, for a body that passed validation
ResolveBlog(url, texts, ch, db, clock) ==
  IF Fails(ch, "selectBlog", 0)
  THEN CaughtError(db, db, clock, StoreFault)
  ELSE AfterBlogLookup(FindBlogByUrl(db, url), url, texts, ch, db, clock)

\* The body fails the first check: blogUrl or postTexts missing, postTexts no array
LacksFields(body) ==
  Falsy(body.blogUrl) \/ Falsy(body.postTexts) \/ ~IsArray(body.postTexts)

\* Variant: the check for an empty array is left out
HasNoTextsNever(body) == FALSE

\* The body fails the second check: postTexts.length === 0
HasNoTexts(body) == Len(body.postTexts.items) = 0

\* handleSimplePost(method, request, env) on store db with the clock at `clock`;
\* ch holds what the environment decides: the clock's pace and the failing call
SimplePost(method, body, ch, db, clock) ==
  IF method # "POST"
  THEN Returned(db, clock, ErrorResponse("Only POST method allowed for simple posts", 405))
  ELSE IF LacksFields(body)
  THEN Returned(db, clock,
                ErrorResponse("blogUrl (string) and postTexts (array) are required", 400))
  ELSE IF HasNoTexts(body)
  THEN Returned(db, clock, ErrorResponse("At least one post text is required", 400))
  ELSE ResolveBlog(body.blogUrl.items, body.postTexts.items, ch, db, clock)

\* ------------------------------------------------------------------------
\* handleBlogs, POST
\* ------------------------------------------------------------------------

\* blogData.Description || null
OrNull(v) == IF Falsy(v) THEN NullStr ELSE v.items

\* case 'POST' of handleBlogs; a constraint violation is thrown to handleRequest
BlogsPost(body, ch, db, clock) ==
  LET createdAt == ReadClock(clock, ch.tick)
      row == [BlogId |-> NextRowId({b.BlogId : b \in db.Blogs}),
              Name |-> body.Name.items,
              Slug |-> body.Slug.items,
              Description |-> OrNull(body.Description),
              Url |-> OrNull(body.Url),
              CreatedAt |-> createdAt]
      db2 == [db EXCEPT !.Blogs = @ \cup {row}]
      newBlog == First({b \in db2.Blogs : b.BlogId = row.BlogId}, "BlogId")
  IN  IF Falsy(body.Name) \/ Falsy(body.Slug)
      THEN Returned(db, clock, ErrorResponse("Name and Slug are required", 400))
      ELSE IF \E b \in db.Blogs : b.Slug = row.Slug
      THEN [db |-> db, now |-> createdAt, thrown |-> "UNIQUE constraint failed: Blogs.Slug",
            resp |-> ErrorResponse("Internal server error", 500)]
      ELSE Returned(db2, createdAt, SuccessResponse(newBlog))

\* ------------------------------------------------------------------------
\* The constraints of src/schema.sql, which the store enforces
\* ------------------------------------------------------------------------

\* Some row of `rows` has the value id in column key
Refers(rows, key, id) == \E r \in rows : r[key] = id

\* Variant: PRAGMA foreign_keys is off, the references are not checked
ForeignKeysNotChecked(db) == TRUE

\* PRAGMA foreign_keys = ON: every FOREIGN KEY of the schema refers to a row,
\* or is NULL
ForeignKeysHold(db) ==
  /\ \A a \in db.Authors : Refers(db.Blogs, "BlogId", a.BlogId)
  /\ \A c \in db.Categories : Refers(db.Blogs, "BlogId", c.BlogId)
  /\ \A p \in db.Posts :
       /\ Refers(db.Blogs, "BlogId", p.BlogId)
       /\ p.AuthorId = NullId \/ Refers(db.Authors, "AuthorId", p.AuthorId)
       /\ p.CategoryId = NullId \/ Refers(db.Categories, "CategoryId", p.CategoryId)
  /\ \A t \in db.PostTags :
       Refers(db.Posts, "PostId", t.PostId) /\ Refers(db.Tags, "TagId", t.TagId)
  /\ \A c \in db.Comments : Refers(db.Posts, "PostId", c.PostId)

\* A statement that would leave the store at db is carried out when db meets
\* the constraints, and throws otherwise
ConstraintsHold(db) == UniqueHolds(db) /\ ForeignKeysHold(db)

\* The store without the Posts whose PostId is in gone, and, ON DELETE CASCADE,
\* without their PostTags and Comments
WithoutPosts(db, gone) ==
  [db EXCEPT !.Posts = {p \in @ : p.PostId \notin gone},
             !.PostTags = {t \in @ : t.PostId \notin gone},
             !.Comments = {c \in @ : c.PostId \notin gone}]

\* DELETE FROM Blogs WHERE BlogId = id, with the cascade to the Authors,
\* Categories and Posts of the Blog
WithoutBlog(db, id) ==
  LET rest == WithoutPosts(db, {p.PostId : p \in {q \in db.Posts : q.BlogId = id}})
  IN  [rest EXCEPT !.Blogs = {b \in @ : b.BlogId # id},
                   !.Authors = {a \in @ : a.BlogId # id},
                   !.Categories = {c \in @ : c.BlogId # id}]

\* DELETE FROM Tags WHERE TagId = id, with the cascade to PostTags
WithoutTag(db, id) ==
  [db EXCEPT !.Tags = {t \in @ : t.TagId # id},
             !.PostTags = {t \in @ : t.TagId # id}]

\* What handleRequest answers when a handler throws
Thrown(db, clock, cause) ==
  [db |-> db, now |-> clock, thrown |-> cause,
   resp |-> ErrorResponse("Internal server error", 500)]

\* The store's error for a statement that breaks a constraint
ConstraintFailed == "constraint failed"

\* v || null for a number v
NumberOrNull(v) == IF Falsy(v) THEN NullId ELSE v.items

\* v || 0
NumberOrZero(v) == IF Falsy(v) THEN 0 ELSE v.items

\* { message: '... deleted successfully' }
Deleted(message) == SuccessResponse([message |-> message])

\* b.Name as BlogName of a row re-read with LEFT JOIN Blogs; NoRow when the
\* query has no row
WithBlogName(db, row) ==
  IF row = NoRow THEN NoRow
  ELSE [row |-> row, BlogName |-> JoinedName(db.Blogs, "BlogId", row.BlogId)]

\* ------------------------------------------------------------------------
\* handleBlogs, PUT and DELETE
\* ------------------------------------------------------------------------

\* case 'PUT' of handleBlogs
BlogsPut(id, body, db, clock) ==
  LET Updated(b) == [b EXCEPT !.Name = body.Name.items,
                              !.Slug = body.Slug.items,
                              !.Description = OrNull(body.Description),
                              !.Url = OrNull(body.Url)]
      db2 == [db EXCEPT !.Blogs = {IF b.BlogId = id THEN Updated(b) ELSE b : b \in @}]
      updatedBlog == First({b \in db2.Blogs : b.BlogId = id}, "BlogId")
  IN  IF id = 0
      THEN Returned(db, clock, ErrorResponse("Blog ID is required for update", 400))
      ELSE IF Falsy(body.Name) \/ Falsy(body.Slug)
      THEN Returned(db, clock, ErrorResponse("Name and Slug are required", 400))
      ELSE IF ~ConstraintsHold(db2)
      THEN Thrown(db, clock, ConstraintFailed)
      ELSE Returned(db2, clock, SuccessResponse(updatedBlog))

\* case 'DELETE' of handleBlogs
BlogsDelete(id, db, clock) ==
  LET db2 == WithoutBlog(db, id)
  IN  IF id = 0
      THEN Returned(db, clock, ErrorResponse("Blog ID is required for deletion", 400))
      ELSE IF ~ConstraintsHold(db2)
      THEN Thrown(db, clock, ConstraintFailed)
      ELSE Returned(db2, clock, Deleted("Blog deleted successfully"))

\* ------------------------------------------------------------------------
\* handleAuthors
\* ------------------------------------------------------------------------

\* SELECT BlogId FROM Blogs WHERE BlogId = ?
FindBlog(db, id) == First({b \in db.Blogs : b.BlogId = id}, "BlogId")

\* case 'POST' of handleAuthors
AuthorsPost(body, ch, db, clock) ==
  LET createdAt == ReadClock(clock, ch.tick)
      row == [AuthorId |-> NextRowId({a.AuthorId : a \in db.Authors}),
              BlogId |-> body.BlogId.items,
              Name |-> body.Name.items,
              Email |-> OrNull(body.Email),
              ProfileUrl |-> OrNull(body.ProfileUrl),
              Bio |-> OrNull(body.Bio),
              CreatedAt |-> createdAt]
      db2 == [db EXCEPT !.Authors = @ \cup {row}]
      newAuthor == First({a \in db2.Authors : a.AuthorId = row.AuthorId}, "AuthorId")
  IN  IF Falsy(body.Name) \/ Falsy(body.BlogId)
      THEN Returned(db, clock, ErrorResponse("Name and BlogId are required", 400))
      ELSE IF FindBlog(db, body.BlogId.items) = NoRow
      THEN Returned(db, clock, ErrorResponse("Blog not found", 404))
      ELSE IF ~ConstraintsHold(db2)
      THEN Thrown(db, createdAt, ConstraintFailed)
      ELSE Returned(db2, createdAt, SuccessResponse(WithBlogName(db2, newAuthor)))

\* case 'PUT' of handleAuthors
AuthorsPut(id, body, db, clock) ==
  LET Updated(a) == [a EXCEPT !.BlogId = body.BlogId.items,
                              !.Name = body.Name.items,
                              !.Email = OrNull(body.Email),
                              !.ProfileUrl = OrNull(body.ProfileUrl),
                              !.Bio = OrNull(body.Bio)]
      db2 == [db EXCEPT !.Authors = {IF a.AuthorId = id THEN Updated(a) ELSE a : a \in @}]
      updatedAuthor == First({a \in db2.Authors : a.AuthorId = id}, "AuthorId")
  IN  IF id = 0
      THEN Returned(db, clock, ErrorResponse("Author ID is required for update", 400))
      ELSE IF Falsy(body.Name) \/ Falsy(body.BlogId)
      THEN Returned(db, clock, ErrorResponse("Name and BlogId are required", 400))
      ELSE IF FindBlog(db, body.BlogId.items) = NoRow
      THEN Returned(db, clock, ErrorResponse("Blog not found", 404))
      ELSE IF ~ConstraintsHold(db2)
      THEN Thrown(db, clock, ConstraintFailed)
      ELSE Returned(db2, clock, SuccessResponse(WithBlogName(db2, updatedAuthor)))

\* case 'DELETE' of handleAuthors
AuthorsDelete(id, db, clock) ==
  LET db2 == [db EXCEPT !.Authors = {a \in @ : a.AuthorId # id}]
  IN  IF id = 0
      THEN Returned(db, clock, ErrorResponse("Author ID is required for deletion", 400))
      ELSE IF ~ConstraintsHold(db2)
      THEN Thrown(db, clock, ConstraintFailed)
      ELSE Returned(db2, clock, Deleted("Author deleted successfully"))

\* ------------------------------------------------------------------------
\* handleCategories
\* ------------------------------------------------------------------------

\* case 'POST' of handleCategories
CategoriesPost(body, db, clock) ==
  LET row == [CategoryId |-> NextRowId({c.CategoryId : c \in db.Categories}),
              BlogId |-> body.BlogId.items,
              Name |-> body.Name.items,
              Slug |-> OrNull(body.Slug)]
      db2 == [db EXCEPT !.Categories = @ \cup {row}]
      newCategory ==
        First({c \in db2.Categories : c.CategoryId = row.CategoryId}, "CategoryId")
  IN  IF Falsy(body.Name) \/ Falsy(body.BlogId)
      THEN Returned(db, clock, ErrorResponse("Name and BlogId are required", 400))
      ELSE IF FindBlog(db, body.BlogId.items) = NoRow
      THEN Returned(db, clock, ErrorResponse("Blog not found", 404))
      ELSE IF ~ConstraintsHold(db2)
      THEN Thrown(db, clock, ConstraintFailed)
      ELSE Returned(db2, clock, SuccessResponse(WithBlogName(db2, newCategory)))

\* case 'PUT' of handleCategories
CategoriesPut(id, body, db, clock) ==
  LET Updated(c) == [c EXCEPT !.BlogId = body.BlogId.items,
                              !.Name = body.Name.items,
                              !.Slug = OrNull(body.Slug)]
      db2 == [db EXCEPT
                !.Categories = {IF c.CategoryId = id THEN Updated(c) ELSE c : c \in @}]
      updatedCategory == First({c \in db2.Categories : c.CategoryId = id}, "CategoryId")
  IN  IF id = 0
      THEN Returned(db, clock, ErrorResponse("Category ID is required for update", 400))
      ELSE IF Falsy(body.Name) \/ Falsy(body.BlogId)
      THEN Returned(db, clock, ErrorResponse("Name and BlogId are required", 400))
      ELSE IF FindBlog(db, body.BlogId.items) = NoRow
      THEN Returned(db, clock, ErrorResponse("Blog not found", 404))
      ELSE IF ~ConstraintsHold(db2)
      THEN Thrown(db, clock, ConstraintFailed)
      ELSE Returned(db2, clock, SuccessResponse(WithBlogName(db2, updatedCategory)))

\* case 'DELETE' of handleCategories
CategoriesDelete(id, db, clock) ==
  LET db2 == [db EXCEPT !.Categories = {c \in @ : c.CategoryId # id}]
  IN  IF id = 0
      THEN Returned(db, clock, ErrorResponse("Category ID is required for deletion", 400))
      ELSE IF ~ConstraintsHold(db2)
      THEN Thrown(db, clock, ConstraintFailed)
      ELSE Returned(db2, clock, Deleted("Category deleted successfully"))

\* ------------------------------------------------------------------------
\* handlePosts
\* ------------------------------------------------------------------------

\* SELECT AuthorId FROM Authors WHERE AuthorId = ?
FindAuthor(db, id) == First({a \in db.Authors : a.AuthorId = id}, "AuthorId")

\* SELECT CategoryId FROM Categories WHERE CategoryId = ?
FindCategory(db, id) == First({c \in db.Categories : c.CategoryId = id}, "CategoryId")

\* SELECT PostId FROM Posts WHERE PostId = ?
FindPost(db, id) == First({p \in db.Posts : p.PostId = id}, "PostId")

\* The body lacks a field the Posts handlers require
LacksPostFields(body) == Falsy(body.Title) \/ Falsy(body.Slug) \/ Falsy(body.BlogId)

\* if (postData.IsPublished && !postData.PublishedAt)
SetsPublishedAt(body) == ~Falsy(body.IsPublished) /\ Falsy(body.PublishedAt)

\* Variant: PublishedAt is bound as the body gives it
PublishedAtAsGiven(body, stamp) == NumberOrNull(body.PublishedAt)

\* postData.PublishedAt || null, after the handler has set it to the clock's
\* reading `stamp` for a body that publishes without one
PublishedAtOf(body, stamp) ==
  IF SetsPublishedAt(body) THEN stamp ELSE NumberOrNull(body.PublishedAt)

\* Variant: only the Blog of the body is looked up
MissingBlogOnly(body, db) ==
  IF FindBlog(db, body.BlogId.items) = NoRow THEN "Blog not found" ELSE ""

\* The message of the 404 for the first reference of the body that names no
\* row, "" when each names one
MissingReference(body, db) ==
  IF FindBlog(db, body.BlogId.items) = NoRow THEN "Blog not found"
  ELSE IF ~Falsy(body.AuthorId) /\ FindAuthor(db, body.AuthorId.items) = NoRow
  THEN "Author not found"
  ELSE IF ~Falsy(body.CategoryId) /\ FindCategory(db, body.CategoryId.items) = NoRow
  THEN "Category not found"
  ELSE ""

\* for (const tagId of tags) INSERT INTO PostTags (PostId, TagId) VALUES (?, ?),
\* from position k on: the inserts before the first that breaks a constraint
\* are carried out
RECURSIVE InsertTags(_, _, _, _)
InsertTags(db, postId, tags, k) ==
  IF k > Len(tags) THEN [ok |-> TRUE, db |-> db]
  ELSE
    LET row == [PostId |-> postId, TagId |-> tags[k]]
        db2 == [db EXCEPT !.PostTags = @ \cup {row}]
    IN  IF row \in db.PostTags \/ ~ConstraintsHold(db2)
        THEN [ok |-> FALSE, db |-> db]
        ELSE InsertTags(db2, postId, tags, k + 1)

\* ------------------------------------------------------------------------
\* handlePosts, GET of the collection
\* ------------------------------------------------------------------------

\* text LIKE pattern of the store: "%" stands for any run of characters, "_"
\* for any one character, and letters match without regard to case
RECURSIVE Like(_, _)
Like(text, pattern) ==
  IF pattern = <<>> THEN text = <<>>
  ELSE IF pattern[1] = "%"
  THEN \E k \in 0..Len(text) : Like(Slice(text, k), Tail(pattern))
  ELSE IF text = <<>> THEN FALSE
  ELSE IF pattern[1] = "_" \/ ToLowerChar(pattern[1]) = ToLowerChar(text[1])
  THEN Like(Tail(text), Tail(pattern))
  ELSE FALSE

\* A column LIKE ?: NULL is like nothing
ColumnLike(value, pattern) == value # NullStr /\ Like(value, pattern)

\* `%${search}%`
SearchTerm(search) == <<"%">> \o search \o <<"%">>

\* p.Title LIKE ? OR p.Content LIKE ? OR p.Excerpt LIKE ?
MatchesSearch(p, search) ==
  \/ ColumnLike(p.Title, SearchTerm(search))
  \/ ColumnLike(p.Content, SearchTerm(search))
  \/ ColumnLike(p.Excerpt, SearchTerm(search))

\* The value of a run of decimal digits
RECURSIVE DigitsValue(_)
DigitsValue(s) ==
  IF s = <<>> THEN 0
  ELSE 10 * DigitsValue(SubSeq(s, 1, Len(s) - 1)) + (IndexIn(s[Len(s)], DigitChars) - 1)

\* The string is a numeral: digits, after "-" or not
IsNumeral(s) ==
  LET digits == IF s # <<>> /\ s[1] = "-" THEN Tail(s) ELSE s
  IN  digits # <<>> /\ Range(digits) \subseteq DigitSet

\* parseInt(s) of a numeral
ParseInt(s) == IF s[1] = "-" THEN 0 - DigitsValue(Tail(s)) ELSE DigitsValue(s)

\* url.searchParams.get(name) || fallback
ParamOr(v, fallback) == IF Falsy(v) THEN fallback ELSE v.items

\* The WHERE clause the handler builds from the parameters that are given
Selected(db, q) ==
  {p \in db.Posts :
     /\ Falsy(q.blog) \/ p.BlogId = ParseInt(q.blog.items)
     /\ Falsy(q.author) \/ p.AuthorId = ParseInt(q.author.items)
     /\ Falsy(q.category) \/ p.CategoryId = ParseInt(q.category.items)
     /\ Falsy(q.published)
          \/ p.IsPublished = (IF q.published.items = <<"t","r","u","e">> THEN 1 ELSE 0)
     /\ Falsy(q.search) \/ MatchesSearch(p, q.search.items)}

\* The position of id in the sequence scan
ScanRank(scan, id) == CHOOSE k \in 1..Len(scan) : scan[k] = id

\* ORDER BY p.CreatedAt DESC: rows of one CreatedAt come in the order the store
\* happens to scan them, which the query does not fix
RECURSIVE OrderedPosts(_, _)
OrderedPosts(rows, scan) ==
  IF rows = {} THEN <<>>
  ELSE LET first == CHOOSE r \in rows : \A o \in rows :
                      \/ r.CreatedAt > o.CreatedAt
                      \/ r.CreatedAt = o.CreatedAt
                           /\ ScanRank(scan, r.PostId) <= ScanRank(scan, o.PostId)
       IN  <<first>> \o OrderedPosts(rows \ {first}, scan)

\* LIMIT ? OFFSET ?: a negative LIMIT is no limit, a negative OFFSET is 0
LimitOffset(rows, limit, offset) ==
  LET skip == IF offset < 0 THEN 0 ELSE offset
      upto == IF limit < 0 THEN Len(rows) ELSE Min(Len(rows), skip + limit)
  IN  SubSeq(rows, skip + 1, upto)

\* case 'GET' of handlePosts without an id; scan is the order in which the store
\* scans the Posts
PostsList(q, scan, db, clock) ==
  LET limit == ParseInt(ParamOr(q.limit, <<"5","0">>))
      offset == ParseInt(ParamOr(q.offset, <<"0">>))
      rows == LimitOffset(OrderedPosts(Selected(db, q), scan), limit, offset)
  IN  Returned(db, clock, SuccessResponse([k \in 1..Len(rows) |-> EnrichPost(db, rows[k])]))

\* The Post re-read with the names of its Blog, Author and Category
ReadPost(db, id) ==
  IF FindPost(db, id) = NoRow THEN NoRow ELSE EnrichPost(db, FindPost(db, id))

\* case 'POST' of handlePosts
PostsPost(body, ch, db, clock) ==
  LET createdAt == ReadClock(clock, ch.tick)
      stamp == IF SetsPublishedAt(body) THEN ReadClock(createdAt, ch.tick) ELSE createdAt
      row == [PostId |-> NextRowId({p.PostId : p \in db.Posts}),
              BlogId |-> body.BlogId.items,
              AuthorId |-> NumberOrNull(body.AuthorId),
              CategoryId |-> NumberOrNull(body.CategoryId),
              Title |-> body.Title.items,
              Slug |-> body.Slug.items,
              Content |-> OrNull(body.Content),
              Excerpt |-> OrNull(body.Excerpt),
              PublishedAt |-> PublishedAtOf(body, stamp),
              IsPublished |-> NumberOrZero(body.IsPublished),
              Views |-> NumberOrZero(body.Views),
              ExternalId |-> OrNull(body.ExternalId),
              CreatedAt |-> createdAt,
              UpdatedAt |-> NumberOrNull(body.UpdatedAt)]
      db2 == [db EXCEPT !.Posts = @ \cup {row}]
      tagged == IF Falsy(body.tags) THEN [ok |-> TRUE, db |-> db2]
                ELSE InsertTags(db2, row.PostId, body.tags.items, 1)
  IN  IF LacksPostFields(body)
      THEN Returned(db, clock, ErrorResponse("Title, Slug, and BlogId are required", 400))
      ELSE IF MissingReference(body, db) # ""
      THEN Returned(db, clock, ErrorResponse(MissingReference(body, db), 404))
      ELSE IF ~ConstraintsHold(db2)
      THEN Thrown(db, stamp, ConstraintFailed)
      ELSE IF ~tagged.ok
      THEN Thrown(tagged.db, stamp, ConstraintFailed)
      ELSE Returned(tagged.db, stamp, SuccessResponse(ReadPost(tagged.db, row.PostId)))

\* Variant: the tags of the body are added to the ones the Post has
KeepTagsOf(db, id) == db

\* DELETE FROM PostTags WHERE PostId = ?
WithoutTagsOf(db, id) == [db EXCEPT !.PostTags = {t \in @ : t.PostId # id}]

\* case 'PUT' of handlePosts
PostsPut(id, body, ch, db, clock) ==
  LET updatedAt == ReadClock(clock, ch.tick)
      stamp == IF SetsPublishedAt(body) THEN ReadClock(updatedAt, ch.tick) ELSE updatedAt
      Updated(p) == [p EXCEPT !.BlogId = body.BlogId.items,
                              !.AuthorId = NumberOrNull(body.AuthorId),
                              !.CategoryId = NumberOrNull(body.CategoryId),
                              !.Title = body.Title.items,
                              !.Slug = body.Slug.items,
                              !.Content = OrNull(body.Content),
                              !.Excerpt = OrNull(body.Excerpt),
                              !.PublishedAt = PublishedAtOf(body, stamp),
                              !.IsPublished = NumberOrZero(body.IsPublished),
                              !.Views = NumberOrZero(body.Views),
                              !.ExternalId = OrNull(body.ExternalId),
                              !.UpdatedAt = updatedAt]
      db2 == [db EXCEPT !.Posts = {IF p.PostId = id THEN Updated(p) ELSE p : p \in @}]
      tagged == IF body.tags.tag = "missing" THEN [ok |-> TRUE, db |-> db2]
                ELSE InsertTags(WithoutTagsOf(db2, id), id, body.tags.items, 1)
  IN  IF id = 0
      THEN Returned(db, clock, ErrorResponse("Post ID is required for update", 400))
      ELSE IF LacksPostFields(body)
      THEN Returned(db, clock, ErrorResponse("Title, Slug, and BlogId are required", 400))
      ELSE IF MissingReference(body, db) # ""
      THEN Returned(db, clock, ErrorResponse(MissingReference(body, db), 404))
      ELSE IF ~ConstraintsHold(db2)
      THEN Thrown(db, stamp, ConstraintFailed)
      ELSE IF ~tagged.ok
      THEN Thrown(tagged.db, stamp, ConstraintFailed)
      ELSE Returned(tagged.db, stamp, SuccessResponse(ReadPost(tagged.db, id)))

\* case 'DELETE' of handlePosts
PostsDelete(id, db, clock) ==
  LET db2 == WithoutPosts(db, {id})
  IN  IF id = 0
      THEN Returned(db, clock, ErrorResponse("Post ID is required for deletion", 400))
      ELSE IF ~ConstraintsHold(db2)
      THEN Thrown(db, clock, ConstraintFailed)
      ELSE Returned(db2, clock, Deleted("Post deleted successfully"))

\* ------------------------------------------------------------------------
\* handleTags
\* ------------------------------------------------------------------------

\* Variant: the lookup of a Tag of that name finds none
FindNoTagNamed(db, name, id) == NoRow

\* SELECT TagId FROM Tags WHERE Name = ? [AND TagId != ?]: a Tag of that name
\* other than Tag id (POST looks for any: no Tag has id 0)
FindTagNamed(db, name, id) ==
  First({t \in db.Tags : t.Name = name /\ t.TagId # id}, "TagId")

\* SELECT t.*, COUNT(pt.PostId) as PostCount ... WHERE t.TagId = ? GROUP BY t.TagId
ReadTag(db, id) ==
  LET tag == First({t \in db.Tags : t.TagId = id}, "TagId")
  IN  IF tag = NoRow THEN NoRow
      ELSE [row |-> tag, PostCount |-> Cardinality({t \in db.PostTags : t.TagId = id})]

\* case 'POST' of handleTags from the lookup on, the lookup having returned `found`
AfterTagLookup(found, body, db, clock) ==
  LET row == [TagId |-> NextRowId({t.TagId : t \in db.Tags}), Name |-> body.Name.items]
      db2 == [db EXCEPT !.Tags = @ \cup {row}]
  IN  IF found # NoRow
      THEN Returned(db, clock, ErrorResponse("Tag with this name already exists", 409))
      ELSE IF ~ConstraintsHold(db2)
      THEN Thrown(db, clock, ConstraintFailed)
      ELSE Returned(db2, clock, SuccessResponse([row |-> row, PostCount |-> 0]))

\* case 'POST' of handleTags
TagsPost(body, db, clock) ==
  IF Falsy(body.Name)
  THEN Returned(db, clock, ErrorResponse("Name is required", 400))
  ELSE AfterTagLookup(FindTagNamed(db, body.Name.items, 0), body, db, clock)

\* case 'PUT' of handleTags from the lookup on, the lookup having returned `found`
AfterOtherTagLookup(found, id, body, db, clock) ==
  LET db2 == [db EXCEPT !.Tags = {IF t.TagId = id THEN [t EXCEPT !.Name = body.Name.items]
                                  ELSE t : t \in @}]
  IN  IF found # NoRow
      THEN Returned(db, clock, ErrorResponse("Tag with this name already exists", 409))
      ELSE IF ~ConstraintsHold(db2)
      THEN Thrown(db, clock, ConstraintFailed)
      ELSE Returned(db2, clock, SuccessResponse(ReadTag(db2, id)))

\* case 'PUT' of handleTags
TagsPut(id, body, db, clock) ==
  IF id = 0
  THEN Returned(db, clock, ErrorResponse("Tag ID is required for update", 400))
  ELSE IF Falsy(body.Name)
  THEN Returned(db, clock, ErrorResponse("Name is required", 400))
  ELSE AfterOtherTagLookup(FindTagNamed(db, body.Name.items, id), id, body, db, clock)

\* case 'DELETE' of handleTags
TagsDelete(id, db, clock) ==
  LET db2 == WithoutTag(db, id)
  IN  IF id = 0
      THEN Returned(db, clock, ErrorResponse("Tag ID is required for deletion", 400))
      ELSE IF ~ConstraintsHold(db2)
      THEN Thrown(db, clock, ConstraintFailed)
      ELSE Returned(db2, clock, Deleted("Tag deleted successfully"))

\* ------------------------------------------------------------------------
\* handleComments
\* ------------------------------------------------------------------------

\* SELECT c.*, p.Title as PostTitle, p.Slug as PostSlug ... WHERE c.CommentId = ?
ReadComment(db, id) ==
  LET comment == First({c \in db.Comments : c.CommentId = id}, "CommentId")
      post == FindPost(db, comment.PostId)
  IN  IF comment = NoRow THEN NoRow
      ELSE [row |-> comment,
            PostTitle |-> IF post = NoRow THEN NullStr ELSE post.Title,
            PostSlug |-> IF post = NoRow THEN NullStr ELSE post.Slug]

\* case 'POST' of handleComments
CommentsPost(body, ch, db, clock) ==
  LET createdAt == ReadClock(clock, ch.tick)
      row == [CommentId |-> NextRowId({c.CommentId : c \in db.Comments}),
              PostId |-> body.PostId.items,
              AuthorName |-> OrNull(body.AuthorName),
              AuthorEmail |-> OrNull(body.AuthorEmail),
              Content |-> body.Content.items,
              CreatedAt |-> createdAt,
              IsApproved |-> NumberOrZero(body.IsApproved),
              ExternalId |-> OrNull(body.ExternalId)]
      db2 == [db EXCEPT !.Comments = @ \cup {row}]
  IN  IF Falsy(body.Content) \/ Falsy(body.PostId)
      THEN Returned(db, clock, ErrorResponse("Content and PostId are required", 400))
      ELSE IF FindPost(db, body.PostId.items) = NoRow
      THEN Returned(db, clock, ErrorResponse("Post not found", 404))
      ELSE IF ~ConstraintsHold(db2)
      THEN Thrown(db, createdAt, ConstraintFailed)
      ELSE Returned(db2, createdAt, SuccessResponse(ReadComment(db2, row.CommentId)))

\* case 'PUT' of handleComments
CommentsPut(id, body, db, clock) ==
  LET Updated(c) == [c EXCEPT !.PostId = body.PostId.items,
                              !.AuthorName = OrNull(body.AuthorName),
                              !.AuthorEmail = OrNull(body.AuthorEmail),
                              !.Content = body.Content.items,
                              !.IsApproved = NumberOrZero(body.IsApproved),
                              !.ExternalId = OrNull(body.ExternalId)]
      db2 == [db EXCEPT !.Comments = {IF c.CommentId = id THEN Updated(c) ELSE c : c \in @}]
  IN  IF id = 0
      THEN Returned(db, clock, ErrorResponse("Comment ID is required for update", 400))
      ELSE IF Falsy(body.Content) \/ Falsy(body.PostId)
      THEN Returned(db, clock, ErrorResponse("Content and PostId are required", 400))
      ELSE IF FindPost(db, body.PostId.items) = NoRow
      THEN Returned(db, clock, ErrorResponse("Post not found", 404))
      ELSE IF ~ConstraintsHold(db2)
      THEN Thrown(db, clock, ConstraintFailed)
      ELSE Returned(db2, clock, SuccessResponse(ReadComment(db2, id)))

\* case 'DELETE' of handleComments
CommentsDelete(id, db, clock) ==
  LET db2 == [db EXCEPT !.Comments = {c \in @ : c.CommentId # id}]
  IN  IF id = 0
      THEN Returned(db, clock, ErrorResponse("Comment ID is required for deletion", 400))
      ELSE IF ~ConstraintsHold(db2)
      THEN Thrown(db, clock, ConstraintFailed)
      ELSE Returned(db2, clock, Deleted("Comment deleted successfully"))

\* ------------------------------------------------------------------------
\* Requests
\* ------------------------------------------------------------------------

UrlMyblog == <<"h","t","t","p","s",":","/","/","m","y","b","l","o","g",".","c","o","m">>

UrlWwwDev == <<"h","t","t","p","s",":","/","/","w","w","w",".","d","e","v",".","i","o","/","b">>

UrlInnerWww ==
  <<"h","t","t","p","s",":","/","/","a",".","w","w","w",".","b",".","c","o","m">>

UrlTwoHyphens == <<"h","t","t","p","s",":","/","/","M","y","-","-","b","l","o","g",".","c","o","m">>

UrlSubdomain ==
  <<"h","t","t","p",":","/","/","n","e","w","s",".","x","1",".","o","r","g",":","8","0">>

UrlLocalhost == <<"h","t","t","p",":","/","/","l","o","c","a","l","h","o","s","t">>

NotAUrl == <<"m","y","b","l","o","g">>

TextBlank == <<" ", " ", " ">>

TextHello ==
  <<"H","e","l","l","o"," ","w","o","r","l","d","."," ","M","o","r","e"," ","t","e","x","t",
    " ","h","e","r","e",".">>

TextPadded == <<" ","H","e","l","l","o"," ","w","o","r","l","d","!","\n">>

TextNoTitle == <<"?"," ","w","h","y">>

TextSpacedStop == <<"H","i"," ","!"," ","y","o","u">>

\* blogUrl values of a /api/simple body
StoreUrls == {Missing, JsonString(<<>>), JsonString(UrlMyblog), JsonString(NotAUrl)}

NameUrls ==
  {JsonString(UrlMyblog), JsonString(UrlWwwDev), JsonString(UrlInnerWww),
   JsonString(UrlTwoHyphens), JsonString(UrlSubdomain), JsonString(UrlLocalhost),
   JsonString(NotAUrl)}

StoreTexts == {TextBlank, TextPadded}

\* Texts around the limit of the title: no sentence, a sentence that ends in a
\* space, a space at position 50, a sentence of 50 characters, one of 51
TitleTexts ==
  {TextBlank, TextNoTitle, TextSpacedStop,
   Rep("a", TitleLen - 1) \o <<" ", "b", ".">>,
   Rep("b", TitleLen) \o <<".">>,
   Rep("b", TitleLen + 1)}

\* Texts around the limit of the excerpt: 150 characters, a space at position
\* 150, more than 150 characters between spaces
ExcerptTexts ==
  {Rep("b", ExcerptLen),
   Rep("b", ExcerptLen - 1) \o <<" ", "c">>,
   <<" ">> \o Rep("b", ExcerptLen + 1) \o <<" ">>}

\* Arrays of at most n entries drawn from pool
ArraysOf(pool, n) == UNION {[1..k -> pool] : k \in 0..n}

\* postTexts values of a /api/simple body
PostTextsOf(pool) ==
  {Missing, JsonString(TextHello)} \cup {JsonArray(a) : a \in ArraysOf(pool, MaxTexts)}

\* The store calls of handleSimplePost that may fail
FaultsOf(postTexts) ==
  {[stage |-> st, idx |-> 0] :
     st \in {"selectBlog", "insertBlog", "readBlog", "selectAuthor", "insertAuthor",
             "readAuthor", "selectCategory", "insertCategory", "readCategory"}}
  \cup {[stage |-> st, idx |-> i] :
          st \in {"insertPost", "readPost"}, i \in 0..(Len(postTexts.items) - 1)}

NoRequest == [kind |-> "none"]

NoResponse == [status |-> 0]

NoRows ==
  [Blogs |-> {}, Authors |-> {}, Categories |-> {}, Posts |-> {},
   Tags |-> {}, PostTags |-> {}, Comments |-> {}]

\* No request is being handled: requests are handled one at a time
Idle == req = NoRequest

\* The store has room for a Post per entry of postTexts
HasRoom(postTexts) ==
  Cardinality(Posts) + (IF IsArray(postTexts) THEN Len(postTexts.items) ELSE 0) <= MaxPosts

\* The step of the system that handles one request with outcome `out`
Handle(request, f, out) ==
  /\ f = NoFault \/ out.thrown = StoreFault
  /\ Blogs' = out.db.Blogs
  /\ Authors' = out.db.Authors
  /\ Categories' = out.db.Categories
  /\ Posts' = out.db.Posts
  /\ Tags' = out.db.Tags
  /\ PostTags' = out.db.PostTags
  /\ Comments' = out.db.Comments
  /\ now' = out.now
  /\ req' = request
  /\ resp' = out.resp
  /\ fault' = f
  /\ ins' = [Blogs |-> out.db.Blogs \ Blogs, Authors |-> out.db.Authors \ Authors,
             Categories |-> out.db.Categories \ Categories, Posts |-> out.db.Posts \ Posts,
             Tags |-> out.db.Tags \ Tags, PostTags |-> out.db.PostTags \ PostTags,
             Comments |-> out.db.Comments \ Comments]
  /\ UNCHANGED <<last, pending>>

\* fetch() returns the response to the client
Respond ==
  /\ ~Idle
  /\ last' = IF req.kind = "simple" /\ resp.status = 200 THEN req.body.blogUrl ELSE Missing
  /\ req' = NoRequest
  /\ resp' = NoResponse
  /\ fault' = NoFault
  /\ ins' = NoRows
  /\ UNCHANGED <<Blogs, Authors, Categories, Posts, Tags, PostTags, Comments, now, pending>>

\* A POST to /api/simple
SimpleRequest(urls, pool, faults, ticks) ==
  /\ Idle
  /\ \E blogUrl \in urls, postTexts \in {p \in PostTextsOf(pool) : HasRoom(p)},
          tick \in ticks :
       \E f \in {NoFault} \cup (faults \cap FaultsOf(postTexts)) :
         LET body == [blogUrl |-> blogUrl, postTexts |-> postTexts]
         IN  Handle([kind |-> "simple", method |-> "POST", body |-> body], f,
                    SimplePost("POST", body, [tick |-> tick, fault |-> f], Store, now))

\* Another method on /api/simple
SimpleOtherMethod ==
  /\ Idle
  /\ \E method \in {"GET", "PUT", "DELETE"} :
       LET body == [blogUrl |-> Missing, postTexts |-> Missing]
       IN  Handle([kind |-> "simple", method |-> method, body |-> body], NoFault,
                  SimplePost(method, body, [tick |-> 0, fault |-> NoFault], Store, now))

BlogNames == {Missing, JsonString(<<"M","y","b","l","o","g">>)}

BlogSlugs == {JsonString(<<"m","y","b","l","o","g">>), JsonString(<<"b","2">>)}

BlogUrls == {Missing, JsonString(UrlMyblog)}

\* A POST to /api/blogs
BlogsPostOf(names, slugs, urls, ticks) ==
  /\ Idle
  /\ \E name \in names, slug \in slugs, url \in urls, tick \in ticks :
       LET body == [Name |-> name, Slug |-> slug, Description |-> Missing, Url |-> url]
       IN  Handle([kind |-> "blogs", method |-> "POST", body |-> body], NoFault,
                  BlogsPost(body, [tick |-> tick, fault |-> NoFault], Store, now))

BlogsPostRequest == BlogsPostOf(BlogNames, BlogSlugs, BlogUrls, 0..1)

\* The ids a request names: of the rows there may be, and one past them
RowIds == 1..(MaxRows + 1)

NameN == JsonString(<<"N">>)

\* The request of a method on a resource
Request(kind, method, id, body) == [kind |-> kind, method |-> method, id |-> id, body |-> body]

NoBody == [none |-> TRUE]

\* What the environment decides for a request outside the ingestion workflow
Tick(t) == [tick |-> t, fault |-> NoFault]

\* The body of a Blogs request
BlogBody(name, slug, url) ==
  [Name |-> name, Slug |-> slug, Description |-> Missing, Url |-> url]

AuthorBody(name, blogId) ==
  [Name |-> name, BlogId |-> JsonNumber(blogId), Email |-> Missing, ProfileUrl |-> Missing,
   Bio |-> Missing]

CategoryBody(name, blogId) == [Name |-> name, BlogId |-> JsonNumber(blogId), Slug |-> Missing]

\* An optional id of a body: 0 for a field that is left out
OptionalId(id) == IF id = 0 THEN Missing ELSE JsonNumber(id)

\* The body of a Posts request: its references, its publication fields, its tags
PostBody(refs, pub, tags) ==
  [Title |-> JsonString(<<"T">>), Slug |-> JsonString(<<"t">>),
   BlogId |-> JsonNumber(refs[1]), AuthorId |-> OptionalId(refs[2]),
   CategoryId |-> OptionalId(refs[3]),
   Content |-> Missing, Excerpt |-> Missing,
   PublishedAt |-> pub[2], IsPublished |-> pub[1],
   Views |-> Missing, ExternalId |-> Missing, UpdatedAt |-> Missing, tags |-> tags]

CommentBody(postId) ==
  [PostId |-> JsonNumber(postId), AuthorName |-> Missing, AuthorEmail |-> Missing,
   Content |-> JsonString(<<"c">>), IsApproved |-> Missing, ExternalId |-> Missing]

\* The requests of a method on a resource with the given ids and bodies
Requests(kind, method, ids, bodies) ==
  {Request(kind, method, id, body) : id \in ids, body \in bodies}

\* handleRequest's switch on the resource, and the handler's switch on the method
Route(r, ch, db, clock) ==
  CASE r.kind = "blogs" /\ r.method = "PUT" -> BlogsPut(r.id, r.body, db, clock)
    [] r.kind = "blogs" /\ r.method = "DELETE" -> BlogsDelete(r.id, db, clock)
    [] r.kind = "authors" /\ r.method = "POST" -> AuthorsPost(r.body, ch, db, clock)
    [] r.kind = "authors" /\ r.method = "PUT" -> AuthorsPut(r.id, r.body, db, clock)
    [] r.kind = "authors" /\ r.method = "DELETE" -> AuthorsDelete(r.id, db, clock)
    [] r.kind = "categories" /\ r.method = "POST" -> CategoriesPost(r.body, db, clock)
    [] r.kind = "categories" /\ r.method = "PUT" -> CategoriesPut(r.id, r.body, db, clock)
    [] r.kind = "categories" /\ r.method = "DELETE" -> CategoriesDelete(r.id, db, clock)
    [] r.kind = "posts" /\ r.method = "POST" -> PostsPost(r.body, ch, db, clock)
    [] r.kind = "posts" /\ r.method = "PUT" -> PostsPut(r.id, r.body, ch, db, clock)
    [] r.kind = "posts" /\ r.method = "DELETE" -> PostsDelete(r.id, db, clock)
    [] r.kind = "tags" /\ r.method = "POST" -> TagsPost(r.body, db, clock)
    [] r.kind = "tags" /\ r.method = "PUT" -> TagsPut(r.id, r.body, db, clock)
    [] r.kind = "tags" /\ r.method = "DELETE" -> TagsDelete(r.id, db, clock)
    [] r.kind = "comments" /\ r.method = "POST" -> CommentsPost(r.body, ch, db, clock)
    [] r.kind = "comments" /\ r.method = "PUT" -> CommentsPut(r.id, r.body, db, clock)
    [] r.kind = "comments" /\ r.method = "DELETE" -> CommentsDelete(r.id, db, clock)

\* A request to /api/{resource} or /api/{resource}/{id}
ApiRequest(requests, ticks) ==
  /\ Idle
  /\ \E r \in requests, tick \in ticks :
       Handle(r, NoFault, Route(r, Tick(tick), Store, now))

AllFaults == FaultsOf(JsonArray(Rep(TextBlank, MaxTexts)))

StoreSimpleRequest == SimpleRequest(StoreUrls, StoreTexts, {}, 0..1)

FaultSimpleRequest == SimpleRequest({JsonString(UrlMyblog)}, StoreTexts, AllFaults, 0..1)

TextSimpleRequest == SimpleRequest({JsonString(UrlMyblog)}, TitleTexts, {}, {0})

ExcerptSimpleRequest == SimpleRequest({JsonString(UrlMyblog)}, ExcerptTexts, {}, {0})

NameSimpleRequest == SimpleRequest(NameUrls, {TextHello}, {}, {0})

\* The clients whose requests are handled concurrently
Clients == {1, 2}

\* A client with no request in flight
NoCall == [pc |-> "idle"]

Init ==
  /\ Blogs = {}
  /\ Authors = {}
  /\ Categories = {}
  /\ Posts = {}
  /\ Tags = {}
  /\ PostTags = {}
  /\ Comments = {}
  /\ now = 0
  /\ req = NoRequest
  /\ resp = NoResponse
  /\ fault = NoFault
  /\ ins = NoRows
  /\ last = Missing
  /\ pending = [c \in Clients |-> NoCall]

Next == StoreSimpleRequest \/ SimpleOtherMethod \/ BlogsPostRequest \/ Respond

\* The API over short texts: ingestion and the creation of blogs
Spec == Init /\ [][Next]_vars

\* The table has fewer rows than max
Room(rows, max) == Cardinality(rows) < max

\* The references of the bodies of Posts requests: BlogId, and AuthorId and
\* CategoryId left out or given
CrudRefs == RowIds \X {0, 1} \X {0, 1}

\* The tags of the bodies of Posts requests
CrudTags == {Missing, JsonArray(<<1>>)}

\* IsPublished and PublishedAt left out
NoPub == <<Missing, Missing>>

\* The bodies of Posts requests with the given references and tags, IsPublished
\* and PublishedAt as in pubs
PostBodies(refs, pubs, tagLists) ==
  {PostBody(ref, pub, tags) : ref \in refs, pub \in pubs, tags \in tagLists}

\* An ingestion request, taken while it leaves the tables within MaxRows rows
CrudSimpleRequest ==
  /\ SimpleRequest({JsonString(UrlMyblog)}, {TextHello}, {}, {0})
  /\ Cardinality(Authors') <= MaxRows
  /\ Cardinality(Categories') <= MaxRows
  /\ Cardinality(Posts') <= MaxRows

\* POST, PUT and DELETE on each of the six resources, and ingestion; a POST
\* (other than to /api/blogs) is taken while its table has room
NextCrud ==
  \/ BlogsPostOf({NameN}, BlogSlugs, {Missing}, {0})
  \/ ApiRequest(Requests("blogs", "PUT", RowIds,
                         {BlogBody(NameN, slug, Missing) : slug \in BlogSlugs}), {0})
  \/ ApiRequest(Requests("blogs", "DELETE", RowIds, {NoBody}), {0})
  \/ /\ Room(Authors, MaxRows)
     /\ ApiRequest(Requests("authors", "POST", {0},
                            {AuthorBody(name, id) : name \in {Missing, NameN}, id \in RowIds}),
                   {0})
  \/ ApiRequest(Requests("authors", "PUT", RowIds, {AuthorBody(NameN, id) : id \in RowIds}), {0})
  \/ ApiRequest(Requests("authors", "DELETE", RowIds, {NoBody}), {0})
  \/ /\ Room(Categories, MaxRows)
     /\ ApiRequest(Requests("categories", "POST", {0},
                            {CategoryBody(NameN, id) : id \in RowIds}), {0})
  \/ ApiRequest(Requests("categories", "PUT", RowIds,
                         {CategoryBody(NameN, id) : id \in RowIds}), {0})
  \/ ApiRequest(Requests("categories", "DELETE", RowIds, {NoBody}), {0})
  \/ /\ Room(Posts, MaxRows)
     /\ ApiRequest(Requests("posts", "POST", {0}, PostBodies(CrudRefs, {NoPub}, CrudTags)), {0})
  \/ ApiRequest(Requests("posts", "PUT", RowIds, PostBodies(CrudRefs, {NoPub}, CrudTags)), {0})
  \/ ApiRequest(Requests("posts", "DELETE", RowIds, {NoBody}), {0})
  \/ /\ Room(Tags, MaxRows)
     /\ ApiRequest(Requests("tags", "POST", {0}, {[Name |-> NameN]}), {0})
  \/ ApiRequest(Requests("tags", "PUT", RowIds, {[Name |-> NameN]}), {0})
  \/ ApiRequest(Requests("tags", "DELETE", RowIds, {NoBody}), {0})
  \/ /\ Room(Comments, MaxRows)
     /\ ApiRequest(Requests("comments", "POST", {0}, {CommentBody(id) : id \in RowIds}), {0})
  \/ ApiRequest(Requests("comments", "PUT", RowIds, {CommentBody(id) : id \in RowIds}), {0})
  \/ ApiRequest(Requests("comments", "DELETE", RowIds, {NoBody}), {0})
  \/ CrudSimpleRequest
  \/ Respond

\* The API of the six resources and the ingestion workflow, a request at a time
SpecCrud == Init /\ [][NextCrud]_vars

\* Requests on Blogs, Tags and Posts: Tags named alike but for the case, and
\* Posts whose tags name Tags there are, Tags there are not, and one Tag twice
TagIds == 1..(MaxTags + 1)

TagNames == {JsonString(<<"s","q","l">>), JsonString(<<"S","Q","L">>)}

TagLists ==
  {Missing, JsonArray(<<>>), JsonArray(<<1>>), JsonArray(<<2>>),
   JsonArray(<<1, 2>>), JsonArray(<<1, 1>>)}

\* One Blog; Tags while the TagId a POST would assign is within TagIds; Posts
\* of the Blog while there is room
NextTags ==
  \/ Room(Blogs, 1) /\ BlogsPostOf({NameN}, {JsonString(<<"b","2">>)}, {Missing}, {0})
  \/ /\ ApiRequest(Requests("tags", "POST", {0}, {[Name |-> name] : name \in TagNames}), {0})
     /\ \A t \in Tags' : t.TagId \in TagIds
  \/ ApiRequest(Requests("tags", "PUT", TagIds, {[Name |-> name] : name \in TagNames}), {0})
  \/ ApiRequest(Requests("tags", "DELETE", TagIds, {NoBody}), {0})
  \/ /\ Room(Posts, MaxRows)
     /\ ApiRequest(Requests("posts", "POST", {0},
                            PostBodies({<<1, 0, 0>>}, {NoPub}, TagLists)), {0})
  \/ ApiRequest(Requests("posts", "PUT", RowIds,
                         PostBodies({<<1, 0, 0>>}, {NoPub}, TagLists)), {0})
  \/ Respond

SpecTags == Init /\ [][NextTags]_vars

\* IsPublished and PublishedAt of the bodies of Posts requests: left out, 0 or
\* 1, and left out, '' or a timestamp
PubFields ==
  {Missing, JsonNumber(0), JsonNumber(1)} \X {Missing, JsonString(<<>>), JsonTime(0)}

\* Ingestion, and POST and PUT on Posts that publish, unpublish and say nothing
NextPublish ==
  \/ SimpleRequest({JsonString(UrlMyblog)}, {TextHello}, {}, {0})
  \/ /\ Room(Posts, MaxPosts)
     /\ ApiRequest(Requests("posts", "POST", {0},
                            PostBodies({<<1, 0, 0>>}, PubFields, {Missing})), 0..1)
  \/ ApiRequest(Requests("posts", "PUT", RowIds,
                         PostBodies({<<1, 0, 0>>}, PubFields, {Missing})), 0..1)
  \/ Respond

SpecPublish == Init /\ [][NextPublish]_vars

\* ------------------------------------------------------------------------
\* Concurrent requests: the handlers await each store call, so the calls of two
\* requests interleave; a call is one statement, which the store runs atomically
\* ------------------------------------------------------------------------

\* The first store call of a request that starts with a lookup: the row found
LookedUp(r, db) ==
  CASE r.kind = "tags" /\ r.method = "POST" -> FindTagNamed(db, r.body.Name.items, 0)
    [] r.kind = "tags" /\ r.method = "PUT" -> FindTagNamed(db, r.body.Name.items, r.id)
    [] r.kind = "simple" -> FindBlogByUrl(db, r.body.blogUrl.items)

\* The rest of the handler, which goes by what the lookup found; the calls of
\* ingestion after the INSERT of the Blog touch neither Blogs nor Tags and are
\* taken in one step
AfterLookup(r, found, db, clock) ==
  CASE r.kind = "tags" /\ r.method = "POST" -> AfterTagLookup(found, r.body, db, clock)
    [] r.kind = "tags" /\ r.method = "PUT" -> AfterOtherTagLookup(found, r.id, r.body, db, clock)
    [] r.kind = "simple" ->
         AfterBlogLookup(found, r.body.blogUrl.items, r.body.postTexts.items,
                         Tick(0), db, clock)

\* The store and the clock are left as `out` has them
Written(out) ==
  /\ Blogs' = out.db.Blogs
  /\ Authors' = out.db.Authors
  /\ Categories' = out.db.Categories
  /\ Posts' = out.db.Posts
  /\ Tags' = out.db.Tags
  /\ PostTags' = out.db.PostTags
  /\ Comments' = out.db.Comments
  /\ now' = out.now
  /\ UNCHANGED <<req, resp, fault, ins, last>>

\* A client sends a request and the handler awaits its lookup
ConcLookup(requests) ==
  \E c \in Clients, r \in requests :
    /\ pending[c] = NoCall
    /\ pending' = [pending EXCEPT ![c] = [pc |-> "looked", req |-> r,
                                          found |-> LookedUp(r, Store)]]
    /\ UNCHANGED <<Blogs, Authors, Categories, Posts, Tags, PostTags, Comments, now,
                   req, resp, fault, ins, last>>

\* The handler goes on from its lookup to its response
ConcWrite ==
  \E c \in Clients :
    /\ pending[c].pc = "looked"
    /\ LET out == AfterLookup(pending[c].req, pending[c].found, Store, now)
       IN  /\ Written(out)
           /\ pending' = [pending EXCEPT ![c] = [pc |-> "done", req |-> pending[c].req,
                                                 found |-> pending[c].found,
                                                 resp |-> out.resp]]

\* A POST or PUT on Blogs: its one write is its first store call
ConcBlogWrite(requests) ==
  \E c \in Clients, r \in requests :
    /\ pending[c] = NoCall
    /\ LET out == IF r.method = "POST" THEN BlogsPost(r.body, Tick(0), Store, now)
                  ELSE BlogsPut(r.id, r.body, Store, now)
       IN  /\ Written(out)
           /\ pending' = [pending EXCEPT ![c] = [pc |-> "done", req |-> r, found |-> NoRow,
                                                 resp |-> out.resp]]

\* The response reaches the client
ConcReturn ==
  \E c \in Clients :
    /\ pending[c].pc = "done"
    /\ pending' = [pending EXCEPT ![c] = NoCall]
    /\ UNCHANGED <<Blogs, Authors, Categories, Posts, Tags, PostTags, Comments, now,
                   req, resp, fault, ins, last>>

\* An ingestion request with one text
Ingest(url) ==
  [kind |-> "simple", method |-> "POST",
   body |-> [blogUrl |-> JsonString(url), postTexts |-> JsonArray(<<TextHello>>)]]

\* There is room for the Posts of the ingestion requests in flight and one more
IngestRoom ==
  Cardinality(Posts) + Cardinality({c \in Clients : pending[c].pc = "looked"}) < MaxPosts

\* Blog and Tag creates and updates and ingestion, two requests at a time
NextConc ==
  \/ ConcLookup(Requests("tags", "POST", {0}, {[Name |-> name] : name \in TagNames}))
  \/ ConcLookup(Requests("tags", "PUT", 1..MaxTags, {[Name |-> name] : name \in TagNames}))
  \/ IngestRoom /\ ConcLookup({Ingest(UrlMyblog)})
  \/ ConcWrite
  \/ ConcBlogWrite(Requests("blogs", "POST", {0},
                            {BlogBody(NameN, slug, Missing) : slug \in BlogSlugs}))
  \/ ConcBlogWrite(Requests("blogs", "PUT", 1..2,
                            {BlogBody(NameN, slug, Missing) : slug \in BlogSlugs}))
  \/ ConcReturn

SpecConc == Init /\ [][NextConc]_vars

\* Ingestion requests with one blogUrl or another, two at a time
NextRace ==
  \/ IngestRoom /\ ConcLookup({Ingest(UrlMyblog), Ingest(UrlWwwDev), Ingest(UrlSubdomain)})
  \/ ConcWrite
  \/ ConcReturn

SpecRace == Init /\ [][NextRace]_vars

\* An ingestion request that found its Blog awaits the lookup of the Author
ConcAuthorLookup ==
  \E c \in Clients :
    /\ pending[c].pc = "looked" /\ pending[c].req.kind = "simple"
    /\ pending[c].found # NoRow
    /\ pending' = [pending EXCEPT ![c] =
                     [pc |-> "author", req |-> pending[c].req, found |-> pending[c].found,
                      author |-> FindAuthorOfBlog(Store, pending[c].found.BlogId)]]
    /\ UNCHANGED <<Blogs, Authors, Categories, Posts, Tags, PostTags, Comments, now,
                   req, resp, fault, ins, last>>

\* Its lookup having found no Author, the request inserts the default Author and
\* reads it back; new URL throws before the INSERT when the blogUrl does not parse
ConcAuthorWrite ==
  \E c \in Clients :
    /\ pending[c].pc = "author" /\ pending[c].author = NoRow
    /\ LET url == pending[c].req.body.blogUrl.items
           row == DefaultAuthorRow(url, pending[c].found.BlogId, Store, now)
           db2 == [Store EXCEPT !.Authors = @ \cup {row}]
           out == IF ~UrlParses(url)
                  THEN CaughtError(Store, Store, now, "TypeError: Invalid URL")
                  ELSE IF ~ConstraintsHold(db2)
                  THEN CaughtError(Store, Store, now, ConstraintFailed)
                  ELSE Returned(db2, now, NoResponse)
       IN  /\ Written(out)
           /\ pending' = [pending EXCEPT ![c] =
                            IF out.thrown # "none"
                            THEN [pc |-> "done", req |-> pending[c].req,
                                  found |-> pending[c].found, resp |-> out.resp]
                            ELSE [pending[c] EXCEPT !.author = row]]

\* With its Author, the request awaits the lookup of the Category
ConcCategoryLookup ==
  \E c \in Clients :
    /\ pending[c].pc = "author" /\ pending[c].author # NoRow
    /\ pending' = [pending EXCEPT ![c] =
                     [pc |-> "category", req |-> pending[c].req, found |-> pending[c].found,
                      author |-> pending[c].author,
                      category |-> FindCategoryOfBlog(Store, pending[c].found.BlogId)]]
    /\ UNCHANGED <<Blogs, Authors, Categories, Posts, Tags, PostTags, Comments, now,
                   req, resp, fault, ins, last>>

\* The request goes on from the lookup of the Category to its response; its
\* remaining calls touch neither Authors nor the Categories of others and are
\* taken in one step
ConcCategoryWrite ==
  \E c \in Clients :
    /\ pending[c].pc = "category"
    /\ LET ctx == [blog |-> pending[c].found, author |-> pending[c].author,
                   category |-> NoRow, ch |-> Tick(0), start |-> Store]
           out == AfterCategoryLookup(pending[c].category,
                                      pending[c].req.body.postTexts.items, ctx, Store, now)
       IN  /\ Written(out)
           /\ pending' = [pending EXCEPT ![c] =
                            [pc |-> "done", req |-> pending[c].req,
                             found |-> pending[c].found, resp |-> out.resp]]

\* An ingestion request with one text, blank or not
IngestOf(url, text) ==
  [kind |-> "simple", method |-> "POST",
   body |-> [blogUrl |-> JsonString(url), postTexts |-> JsonArray(<<text>>)]]

\* There is room for the Posts of the ingestion requests in flight and one more
DefaultsRoom ==
  Cardinality(Posts) + Cardinality({c \in Clients : pending[c].pc \notin {"idle", "done"}})
    < MaxPosts

\* Ingestion requests, two at a time, for Blogs created through /api/blogs with
\* no Author and no Category
NextDefaults ==
  \/ /\ Room(Blogs, MaxRows + 1)
     /\ ConcBlogWrite(Requests("blogs", "POST", {0},
                               {BlogBody(NameN, slug, JsonString(url)) :
                                  slug \in BlogSlugs, url \in {UrlMyblog, NotAUrl}}))
  \/ /\ DefaultsRoom
     /\ \E url \in {UrlMyblog, NotAUrl} :
          /\ FindBlogByUrl(Store, url) # NoRow
          /\ ConcLookup({IngestOf(url, text) : text \in {TextBlank, TextHello}})
  \/ ConcAuthorLookup
  \/ ConcAuthorWrite
  \/ ConcCategoryLookup
  \/ ConcCategoryWrite
  \/ ConcReturn

SpecDefaults == Init /\ [][NextDefaults]_vars

NextFault == FaultSimpleRequest \/ Respond

\* The ingestion workflow with store calls that may fail
SpecFault == Init /\ [][NextFault]_vars

NextText == TextSimpleRequest \/ Respond

\* The ingestion workflow over texts that reach every case of the title
SpecText == Init /\ [][NextText]_vars

NextExcerpt == ExcerptSimpleRequest \/ Respond

\* The ingestion workflow over texts that reach every case of the excerpt
SpecExcerpt == Init /\ [][NextExcerpt]_vars

NextName == NameSimpleRequest \/ Respond

\* The ingestion workflow over URLs that reach every case of the derived
\* blog fields
SpecName == Init /\ [][NextName]_vars

\* The same host as UrlMyblog under the other scheme
UrlHttpMyblog == <<"h","t","t","p",":","/","/","m","y","b","l","o","g",".","c","o","m">>

\* The blogUrl values of the requests over Blogs whose Url may not parse
UnparsedUrls == {JsonString(NotAUrl), JsonString(UrlMyblog), JsonString(UrlHttpMyblog)}

NextUrl ==
  \/ Room(Blogs, MaxRows + 1) /\ BlogsPostOf({NameN}, BlogSlugs, {Missing, JsonString(NotAUrl)}, {0})
  \/ Room(Authors, MaxRows + 1)
       /\ ApiRequest(Requests("authors", "POST", {0}, {AuthorBody(NameN, id) : id \in RowIds}), {0})
  \/ SimpleRequest(UnparsedUrls, {TextBlank, TextPadded}, {}, {0})
  \/ Respond

\* Ingestion, with Blogs and Authors created through /api/blogs and
\* /api/authors, over blogUrl values that parse and that do not
SpecUrl == Init /\ [][NextUrl]_vars

\* The sequences that hold each element of the set once
Scans(ids) == {f \in [1..Cardinality(ids) -> ids] : \A i, j \in 1..Cardinality(ids) : f[i] = f[j] => i = j}

\* The parameters of a GET of /api/posts
Query(blog, published, search, limit, offset) ==
  [blog |-> blog, author |-> Missing, category |-> Missing, published |-> published,
   search |-> search, limit |-> limit, offset |-> offset]

\* A GET of /api/posts whose limit and offset are numerals when given
PostsListRequest(queries) ==
  /\ Idle
  /\ \E q \in queries, scan \in Scans({p.PostId : p \in Posts}) :
       /\ IsNumeral(ParamOr(q.limit, <<"5","0">>)) /\ IsNumeral(ParamOr(q.offset, <<"0">>))
       /\ Handle(Request("posts", "GET", 0, q), NoFault, PostsList(q, scan, Store, now))

SearchTitles == {<<"S","Q","L">>, <<"a","b">>}

SearchContents == {Missing, JsonString(<<"a","_","b">>)}

\* The bodies of the Posts that are searched: published or not, with a Title,
\* and with or without Content
SearchBodies ==
  {[PostBody(<<1, 0, 0>>, <<pub, Missing>>, Missing)
      EXCEPT !.Title = JsonString(t), !.Content = c] :
     pub \in {JsonNumber(0), JsonNumber(1)}, t \in SearchTitles, c \in SearchContents}

\* What is searched for: nothing, a word in the other case, a word, "_", and a
\* word with "_" in it
SearchWords ==
  {Missing, JsonString(<<"s","q","l">>), JsonString(<<"b">>), JsonString(<<"_">>),
   JsonString(<<"a","_","b">>)}

SearchQueries ==
  {Query(blog, published, search, limit, offset) :
     blog \in {Missing, JsonString(<<"1">>)},
     published \in {Missing, JsonString(<<"t","r","u","e">>), JsonString(<<"f","a","l","s","e">>)},
     search \in SearchWords,
     limit \in {Missing, JsonString(<<"1">>)},
     offset \in {Missing, JsonString(<<"1">>)}}

NextSearch ==
  \/ Room(Blogs, MaxRows) /\ BlogsPostOf({NameN}, BlogSlugs, {Missing}, {0})
  \/ Room(Posts, MaxPosts) /\ ApiRequest(Requests("posts", "POST", {0}, SearchBodies), 0..1)
  \/ PostsListRequest(SearchQueries)
  \/ Respond

\* Posts created through /api/posts, and the filtered GET of /api/posts
SpecSearch == Init /\ [][NextSearch]_vars

\* ------------------------------------------------------------------------
\* Properties
\* ------------------------------------------------------------------------

\* The state right after an ingestion request (POST /api/simple) was handled
Ingested == req.kind = "simple" /\ req.method = "POST"

\* The step that handles an ingestion request
IngestionStep == req = NoRequest /\ req'.kind = "simple" /\ req'.method = "POST"

\* The postTexts entries of a body, none when the field is no array
TextsOf(body) == IF body.postTexts.tag = "array" THEN body.postTexts.items ELSE <<>>

IsNonBlank(text) == \E k \in 1..Len(text) : text[k] \notin SpaceSet

\* The positions of the entries of texts that are non-empty after trimming
NonBlankPositions(texts) ==
  SelectSeq([k \in 1..Len(texts) |-> k], LAMBDA k : IsNonBlank(texts[k]))

\* A body the input contract accepts
WellFormed(body) ==
  /\ body.blogUrl.tag = "string" /\ body.blogUrl.items # <<>>
  /\ body.postTexts.tag = "array" /\ body.postTexts.items # <<>>

BlogsWithUrl(blogs, url) == {b \in blogs : b.Url = url}

\* What a second ingestion call in sequence with the same blogUrl does: no new
\* Blog, Author or Category, and one new Post per non-blank text when no store
\* call fails
SecondCallEffect ==
  /\ Blogs' = Blogs
  /\ Authors' = Authors
  /\ Categories' = Categories
  /\ (WellFormed(req'.body) /\ fault' = NoFault) =>
       /\ resp'.status = 200
       /\ Cardinality(Posts' \ Posts) = Len(NonBlankPositions(TextsOf(req'.body)))
       /\ Posts \subseteq Posts'

\* The ingestion step that follows a successful ingestion call with the same blogUrl
SecondCallStep == IngestionStep /\ last # Missing /\ req'.body.blogUrl = last

Rejected(body) ==
  \/ body.blogUrl = Missing
  \/ body.blogUrl = JsonString(<<>>)
  \/ body.postTexts = Missing
  \/ body.postTexts.tag # "array"
  \/ body.postTexts = JsonArray(<<>>)

\* C2: an ingestion request with blogUrl missing or empty, postTexts missing or
\* not an array, or postTexts empty is answered 400 and leaves Blogs, Authors,
\* Categories and Posts unchanged.
C2_InvalidBodyRejected ==
  [][(IngestionStep /\ Rejected(req'.body)) =>
       /\ resp'.status = 400
       /\ UNCHANGED <<Blogs, Authors, Categories, Posts>>]_vars

C2_Witness ==
  /\ Ingested
  /\ req.body.blogUrl = JsonString(UrlMyblog)
  /\ req.body.postTexts = JsonArray(<<>>)
  /\ resp.status = 400
  /\ Blogs # {}
  /\ ins = NoRows

\* C3: a successful ingestion request reports as postsCreated the number of
\* entries that are non-empty after trimming, returns one Post per such entry in
\* input order, and inserts exactly those Posts.
C3_OnePostPerNonBlankText ==
  (Ingested /\ resp.status = 200) =>
    LET texts == TextsOf(req.body)
        kept == NonBlankPositions(texts)
        posts == resp.body.posts
    IN  /\ resp.body.postsCreated = Len(kept)
        /\ Len(posts) = Len(kept)
        /\ \A k \in 1..Len(kept) : posts[k].post.Content = Trim(texts[kept[k]])
        /\ \A j, k \in 1..Len(kept) : j < k => posts[j].post.PostId < posts[k].post.PostId
        /\ ins.Posts = {posts[k].post : k \in 1..Len(posts)}
        /\ Cardinality(ins.Posts) = Len(kept)

C3_Witness ==
  /\ Ingested
  /\ resp.status = 200
  /\ Len(TextsOf(req.body)) = 2
  /\ ~IsNonBlank(TextsOf(req.body)[1])
  /\ resp.body.postsCreated = 1

\* Two different texts come back in the order they were given
C3_WitnessOrder ==
  /\ Ingested
  /\ resp.status = 200
  /\ resp.body.postsCreated = 2
  /\ resp.body.posts[1].post.Content # resp.body.posts[2].post.Content

\* C4: every Post the ingestion workflow inserts belongs to the resolved Blog,
\* has the resolved Author and Category, IsPublished 1, Views 0, no ExternalId,
\* the trimmed text as Content, and PublishedAt = CreatedAt = UpdatedAt.
C4_InsertedPostFields ==
  Ingested =>
    \A p \in ins.Posts :
      /\ \E b \in Blogs : b.BlogId = p.BlogId /\ b.Url = req.body.blogUrl.items
      /\ \E a \in Authors : a.AuthorId = p.AuthorId /\ a.BlogId = p.BlogId
      /\ \E c \in Categories : c.CategoryId = p.CategoryId /\ c.BlogId = p.BlogId
      /\ resp.status = 200 =>
           /\ p.BlogId = resp.body.blog.BlogId
           /\ p.AuthorId = resp.body.author.AuthorId
           /\ p.CategoryId = resp.body.category.CategoryId
      /\ p.IsPublished = 1
      /\ p.Views = 0
      /\ p.ExternalId = NullStr
      /\ \E k \in 1..Len(TextsOf(req.body)) :
           /\ IsNonBlank(TextsOf(req.body)[k])
           /\ p.Content = Trim(TextsOf(req.body)[k])
      /\ p.PublishedAt = p.CreatedAt
      /\ p.UpdatedAt = p.CreatedAt
      /\ p.CreatedAt # NullId

C4_Witness ==
  /\ Ingested
  /\ resp.status = 200
  /\ Cardinality(ins.Posts) = 2
  /\ ins.Blogs = {}
  /\ Cardinality(Blogs) = 2
  /\ \E p \in ins.Posts : p.CreatedAt > 0 /\ p.Content # TextsOf(req.body)[1]

\* How far a request got before the store call of a stage failed
StageRank(stage) ==
  CASE stage = "selectBlog" -> 1
    [] stage = "insertBlog" -> 2
    [] stage = "readBlog" -> 3
    [] stage = "selectAuthor" -> 4
    [] stage = "insertAuthor" -> 5
    [] stage = "readAuthor" -> 6
    [] stage = "selectCategory" -> 7
    [] stage = "insertCategory" -> 8
    [] stage = "readCategory" -> 9
    [] stage = "insertPost" -> 10
    [] stage = "readPost" -> 11

\* The number of Posts written before the failing call f of a request for texts
PostsBefore(f, texts) ==
  IF StageRank(f.stage) < 10 THEN 0
  ELSE Cardinality({k \in 1..Len(texts) :
                      /\ IsNonBlank(texts[k])
                      /\ \/ k - 1 < f.idx
                         \/ k - 1 = f.idx /\ f.stage = "readPost"})

\* C5: when a store call fails partway through an ingestion request, the Blog,
\* Author, Category and Posts written before it stay persisted, nothing that was
\* there is removed, and the response is the 500 creation failure alone.
C5_PartialWritesRemain ==
  [][(IngestionStep /\ fault' # NoFault) =>
       LET rank == StageRank(fault'.stage)
           blogs == BlogsWithUrl(Blogs', req'.body.blogUrl.items)
       IN  /\ resp' = [status |-> 500, body |-> [error |-> "Failed to create posts"]]
           /\ Blogs \subseteq Blogs' /\ Authors \subseteq Authors'
           /\ Categories \subseteq Categories' /\ Posts \subseteq Posts'
           /\ rank >= 3 => blogs # {}
           /\ rank >= 6 => \E b \in blogs : \E a \in Authors' : a.BlogId = b.BlogId
           /\ rank >= 9 => \E b \in blogs : \E c \in Categories' : c.BlogId = b.BlogId
           /\ Cardinality(Posts' \ Posts) = PostsBefore(fault', TextsOf(req'.body))]_vars

C5_Witness ==
  /\ Ingested
  /\ fault = [stage |-> "insertPost", idx |-> 1]
  /\ resp.status = 500
  /\ Cardinality(ins.Posts) = 1
  /\ ins.Blogs # {} /\ ins.Authors # {} /\ ins.Categories # {}

\* C6: the Posts one ingestion request creates have pairwise distinct Slugs.
C6_SlugsDistinctInBatch ==
  Ingested => \A p, q \in ins.Posts : p.PostId # q.PostId => p.Slug # q.Slug

\* Two posts of one request with the same title, made in the same millisecond
C6_Witness ==
  /\ Ingested
  /\ \E p, q \in ins.Posts :
       /\ p.PostId # q.PostId
       /\ p.Title = q.Title
       /\ p.CreatedAt = q.CreatedAt
       /\ now = 0

TitleFrom(cut, i) ==
  IF cut = <<>> THEN <<"P","o","s","t"," ">> \o Digits(i + 1)
  ELSE IF Len(cut) = TitleLen /\ ~EndsWith(cut, Ellipsis) THEN cut \o Ellipsis
  ELSE cut

\* The text before the first '.', '!' or '?' of the trimmed entry, cut to 50 characters
CutSentence(text) ==
  LET t == Trim(text)
      stops == {k \in 1..Len(t) : t[k] \in {".", "!", "?"}}
      sentence == IF stops = {} THEN t
                  ELSE SubSeq(t, 1, (CHOOSE k \in stops : \A j \in stops : k <= j) - 1)
  IN  SubSeq(sentence, 1, Min(TitleLen, Len(sentence)))

\* The returned posts have the titles TitleFrom gives for their entries' cut
\* sentences, trimmed or not
TitlesAre(trimmed) ==
  (Ingested /\ resp.status = 200) =>
    LET texts == TextsOf(req.body)
        kept == NonBlankPositions(texts)
    IN  \A k \in 1..Len(kept) :
          LET cut == CutSentence(texts[kept[k]])
          IN  resp.body.posts[k].post.Title =
                TitleFrom(IF trimmed THEN Trim(cut) ELSE cut, kept[k] - 1)

\* C8 as stated: the Title of the entry at 0-based position i is the text before
\* the first '.', '!' or '?' cut to 50 characters, with "..." appended exactly
\* when that is 50 characters long, and "Post {i+1}" when it is empty.
C8_TitleFromCut == TitlesAre(FALSE)

\* C8 as amended: the same, of the cut text without the whitespace around it.
C8_TitleFromTrimmedCut == TitlesAre(TRUE)

\* An entry after a blank one that gets the fallback title, counted from the start
C8_WitnessFallback ==
  /\ Ingested
  /\ resp.status = 200
  /\ Len(TextsOf(req.body)) = 2
  /\ ~IsNonBlank(TextsOf(req.body)[1])
  /\ resp.body.postsCreated = 1
  /\ resp.body.posts[1].post.Title = <<"P","o","s","t"," ","2">>

\* A sentence whose cut ends in a space, and a title with the ellipsis
C8_Witness ==
  /\ Ingested
  /\ resp.status = 200
  /\ \E k \in 1..Len(resp.body.posts) :
       /\ Len(resp.body.posts[k].post.Content) > TitleLen
       /\ resp.body.posts[k].post.Content[TitleLen] \in SpaceSet
       /\ Len(resp.body.posts[k].post.Title) = TitleLen - 1
  /\ \E k \in 1..Len(resp.body.posts) :
       Len(resp.body.posts[k].post.Title) = TitleLen + Len(Ellipsis)

\* urlObj.hostname of the request that was handled
RequestHost == Hostname(req.body.blogUrl.items)

StartsWith(s, t) == Len(t) <= Len(s) /\ SubSeq(s, 1, Len(t)) = t

\* The name of C9: a leading "www." and the final extension removed, first
\* character in upper case
NameWithoutLeadingWww(host) ==
  LET rest == IF StartsWith(host, WwwDot) THEN SubSeq(host, Len(WwwDot) + 1, Len(host))
              ELSE host
      dots == {k \in 1..Len(rest) : rest[k] = "."}
      lastDot == CHOOSE k \in dots : \A j \in dots : j <= k
      name == IF dots = {} \/ lastDot = Len(rest) THEN rest
              ELSE SubSeq(rest, 1, lastDot - 1)
  IN  IF name = <<>> THEN name ELSE <<ToUpperChar(name[1])>> \o SubSeq(name, 2, Len(name))

\* C9: the Name of a Blog created by ingestion is the hostname without a leading
\* "www." and without its final extension, first character upper-cased; a "www."
\* elsewhere in the hostname is kept.
C9_NameKeepsInnerWww ==
  Ingested => \A b \in ins.Blogs : b.Name = NameWithoutLeadingWww(RequestHost)

\* C10 as stated: the Slug of a Blog created by ingestion is the lower-cased
\* name with every maximal run of non-alphanumeric characters replaced by one
\* hyphen, so it has no two adjacent hyphens.
C10_SlugRunsCollapsed ==
  Ingested =>
    \A b \in ins.Blogs :
      /\ b.Slug = CollapseRuns(ToLowerCase(b.Name), Range(ToLowerCase(b.Name)) \ LowerAlnumSet, "-")
      /\ \A k \in 1..(Len(b.Slug) - 1) : ~(b.Slug[k] = "-" /\ b.Slug[k + 1] = "-")

\* C10 as amended: the Slug of a Blog created by ingestion is the lower-cased
\* name with every non-alphanumeric character replaced by a hyphen, character
\* for character.
C10_SlugEachCharReplaced ==
  Ingested =>
    \A b \in ins.Blogs :
      /\ Len(b.Slug) = Len(b.Name)
      /\ \A k \in 1..Len(b.Name) :
           b.Slug[k] = IF ToLowerChar(b.Name[k]) \in LowerAlnumSet
                       THEN ToLowerChar(b.Name[k])
                       ELSE "-"

\* A created Blog whose name has two adjacent characters that are not alphanumeric
C10_Witness ==
  /\ Ingested
  /\ \E b \in ins.Blogs :
       \E k \in 1..(Len(b.Name) - 1) :
         /\ ToLowerChar(b.Name[k]) \notin LowerAlnumSet
         /\ ToLowerChar(b.Name[k + 1]) \notin LowerAlnumSet

\* The step that handles a request of a method on a resource
Handles(kind, method) == req = NoRequest /\ req'.kind = kind /\ req'.method = method

\* The state right after a request of a method on a resource was handled
Handled(kind, method) == req.kind = kind /\ req.method = method

\* The step leaves every table as it was
StoreUnchanged == UNCHANGED <<Blogs, Authors, Categories, Posts, Tags, PostTags, Comments>>

\* The id v of a body is given and is the id of no row
NamesNone(v, rows, key) == ~Falsy(v) /\ ~Refers(rows, key, v.items)

\* The step answers 404 and changes no table
NotFoundNoWrite == resp'.status = 404 /\ StoreUnchanged

\* C11: a POST with its required fields that names a Blog that does not exist
\* (Author, Category), a Blog, Author or Category that does not exist (Post), or
\* a Post that does not exist (Comment) is answered 404 and inserts no row.
C11_MissingParentRejected ==
  [][/\ (/\ Handles("authors", "POST") \/ Handles("categories", "POST")
         /\ ~Falsy(req'.body.Name)
         /\ NamesNone(req'.body.BlogId, Blogs, "BlogId")) => NotFoundNoWrite
     /\ (/\ Handles("posts", "POST")
         /\ ~Falsy(req'.body.Title) /\ ~Falsy(req'.body.Slug) /\ ~Falsy(req'.body.BlogId)
         /\ \/ NamesNone(req'.body.BlogId, Blogs, "BlogId")
            \/ NamesNone(req'.body.AuthorId, Authors, "AuthorId")
            \/ NamesNone(req'.body.CategoryId, Categories, "CategoryId")) => NotFoundNoWrite
     /\ (/\ Handles("comments", "POST")
         /\ ~Falsy(req'.body.Content)
         /\ NamesNone(req'.body.PostId, Posts, "PostId")) => NotFoundNoWrite]_vars

\* A Post for a Blog there is and an Author there is not, in a store with rows
C11_Witness ==
  /\ Handled("posts", "POST")
  /\ Refers(Blogs, "BlogId", req.body.BlogId.items)
  /\ NamesNone(req.body.AuthorId, Authors, "AuthorId")
  /\ resp.status = 404
  /\ Categories # {} /\ Tags # {}
  /\ ins = NoRows

\* A Comment for a Post there is not, in a store with a Post
C11_WitnessComment ==
  /\ Handled("comments", "POST")
  /\ NamesNone(req.body.PostId, Posts, "PostId")
  /\ resp.status = 404
  /\ Posts # {}

\* The tags of the body name a Tag there is not, or one Tag twice
BadTags(body) ==
  /\ IsArray(body.tags)
  /\ \/ \E k \in 1..Len(body.tags.items) : ~Refers(Tags, "TagId", body.tags.items[k])
     \/ \E j, k \in 1..Len(body.tags.items) : j # k /\ body.tags.items[j] = body.tags.items[k]

\* C12 as stated: a POST to /api/posts whose tags name a Tag that does not exist,
\* or one Tag twice, fails and leaves no Post row and no PostTags row behind.
C12_BadTagsLeaveNothing ==
  [][(/\ Handles("posts", "POST")
      /\ ~Falsy(req'.body.BlogId) /\ Refers(Blogs, "BlogId", req'.body.BlogId.items)
      /\ BadTags(req'.body))
       => /\ resp'.status # 200
          /\ Posts' = Posts
          /\ PostTags' = PostTags]_vars

\* A Tag other than Tag id has the Name of the body (Tag 0 is no Tag)
NameTaken(body, id) ==
  /\ ~Falsy(body.Name)
  /\ \E t \in Tags : t.Name = body.Name.items /\ t.TagId # id

\* C13: a POST to /api/tags with the Name of a Tag there is, and a PUT to
\* /api/tags/{id} with the Name of another Tag, is answered 409 and leaves the
\* Tags as they were; the Names are compared character for character.
C13_DuplicateNameConflicts ==
  [][/\ (Handles("tags", "POST") /\ NameTaken(req'.body, 0))
          => (resp'.status = 409 /\ Tags' = Tags)
     /\ (Handles("tags", "PUT") /\ req'.id # 0 /\ NameTaken(req'.body, req'.id))
          => (resp'.status = 409 /\ Tags' = Tags)]_vars

\* A POST with the Name of one of two Tags whose Names differ in case only
C13_Witness ==
  /\ Handled("tags", "POST")
  /\ NameTaken(req.body, 0)
  /\ resp.status = 409
  /\ Cardinality(Tags) = 2

\* A PUT that would give a Tag the Name of the other one
C13_WitnessPut ==
  /\ Handled("tags", "PUT")
  /\ Refers(Tags, "TagId", req.id)
  /\ NameTaken(req.body, req.id)
  /\ resp.status = 409

\* The TagIds the rows of PostTags associate with Post id
TagsOfPost(rows, id) == {t.TagId : t \in {x \in rows : x.PostId = id}}

\* C14: after a PUT to /api/posts/{id} answered 200, the Tags of the Post are
\* the TagIds of the tags of the body when the body has the field (none for
\* []), and the ones it had before when the body has no such field.
C14_TagsReplaced ==
  [][(Handles("posts", "PUT") /\ resp'.status = 200)
       => IF req'.body.tags.tag = "missing"
          THEN TagsOfPost(PostTags', req'.id) = TagsOfPost(PostTags, req'.id)
          ELSE TagsOfPost(PostTags', req'.id) = Range(req'.body.tags.items)]_vars

\* A Post there is was given two Tags by a PUT
C14_Witness ==
  /\ Handled("posts", "PUT")
  /\ resp.status = 200
  /\ Refers(Posts, "PostId", req.id)
  /\ req.body.tags = JsonArray(<<1, 2>>)
  /\ TagsOfPost(PostTags, req.id) = {1, 2}

\* A Post with a Tag was updated by a PUT without tags
C14_WitnessKept ==
  /\ Handled("posts", "PUT")
  /\ resp.status = 200
  /\ req.body.tags = Missing
  /\ TagsOfPost(PostTags, req.id) # {}

\* A Post with a Tag was updated by a PUT with the tags []
C14_WitnessEmptied ==
  /\ Handled("posts", "PUT")
  /\ resp.status = 200
  /\ Refers(Posts, "PostId", req.id)
  /\ req.body.tags = JsonArray(<<>>)
  /\ TagsOfPost(PostTags, req.id) = {}
  /\ Tags # {}

\* The ids of the rows of the table of a resource
IdsOf(kind) ==
  CASE kind = "blogs" -> {b.BlogId : b \in Blogs}
    [] kind = "authors" -> {a.AuthorId : a \in Authors}
    [] kind = "categories" -> {c.CategoryId : c \in Categories}
    [] kind = "posts" -> {q.PostId : q \in Posts}
    [] kind = "tags" -> {t.TagId : t \in Tags}
    [] kind = "comments" -> {c.CommentId : c \in Comments}

\* The body of a PUT has the required fields of the resource, the rows it
\* refers to exist, and (Tag) its Name is the Name of no Tag
ValidBody(kind, body) ==
  CASE kind = "blogs" -> ~Falsy(body.Name) /\ ~Falsy(body.Slug)
    [] kind \in {"authors", "categories"} ->
         /\ ~Falsy(body.Name) /\ ~Falsy(body.BlogId)
         /\ Refers(Blogs, "BlogId", body.BlogId.items)
    [] kind = "posts" -> ~LacksPostFields(body) /\ MissingReference(body, Store) = ""
    [] kind = "tags" -> ~Falsy(body.Name) /\ ~NameTaken(body, 0)
    [] kind = "comments" ->
         /\ ~Falsy(body.Content) /\ ~Falsy(body.PostId)
         /\ Refers(Posts, "PostId", body.PostId.items)

\* The step handles a PUT with a valid body and the id of no row
PutOfNoRow ==
  /\ req = NoRequest
  /\ req'.kind \in {"blogs", "authors", "categories", "posts", "tags", "comments"}
  /\ req'.method = "PUT"
  /\ req'.id # 0 /\ req'.id \notin IdsOf(req'.kind)
  /\ ValidBody(req'.kind, req'.body)

\* C15 as stated: a PUT on a Blog, Author, Category, Post, Tag or Comment with
\* a valid body and the id of no row is answered 404 and changes no row.
C15_PutOfNoRowNotFound ==
  [][PutOfNoRow => NotFoundNoWrite]_vars

\* The ids of the Posts of Blog id
PostsOfBlog(id) == {q.PostId : q \in {x \in Posts : x.BlogId = id}}

\* C16 as stated: a DELETE to /api/blogs/{id} succeeds in every state, and
\* afterwards no Author, Category or Post has that BlogId and no PostTags row or
\* Comment refers to a Post the Blog had.
C16_BlogDeleteCascades ==
  [][(Handles("blogs", "DELETE") /\ req'.id # 0)
       => /\ resp'.status = 200
          /\ \A a \in Authors' : a.BlogId # req'.id
          /\ \A c \in Categories' : c.BlogId # req'.id
          /\ \A q \in Posts' : q.BlogId # req'.id
          /\ \A t \in PostTags' : t.PostId \notin PostsOfBlog(req'.id)
          /\ \A c \in Comments' : c.PostId \notin PostsOfBlog(req'.id)]_vars

\* C17: every Author, Category and Post refers to a Blog there is, every Post
\* with an AuthorId or a CategoryId to an Author or a Category there is, every
\* Comment to a Post there is, and every PostTags row to a Post and a Tag
\* there are.
C17_ReferencesResolve ==
  /\ \A a \in Authors : Refers(Blogs, "BlogId", a.BlogId)
  /\ \A c \in Categories : Refers(Blogs, "BlogId", c.BlogId)
  /\ \A q \in Posts :
       /\ Refers(Blogs, "BlogId", q.BlogId)
       /\ q.AuthorId # NullId => Refers(Authors, "AuthorId", q.AuthorId)
       /\ q.CategoryId # NullId => Refers(Categories, "CategoryId", q.CategoryId)
  /\ \A c \in Comments : Refers(Posts, "PostId", c.PostId)
  /\ \A t \in PostTags : Refers(Posts, "PostId", t.PostId) /\ Refers(Tags, "TagId", t.TagId)

\* The delete of an Author a Post refers to was refused
C17_Witness ==
  /\ Handled("authors", "DELETE")
  /\ \E q \in Posts : q.AuthorId = req.id
  /\ resp.status = 500
  /\ Comments # {} /\ PostTags # {}

\* The delete of a Category a Post refers to was refused
C17_WitnessCategory ==
  /\ Handled("categories", "DELETE")
  /\ \E q \in Posts : q.CategoryId = req.id
  /\ resp.status = 500

\* C18: every Post with IsPublished = 1 has a PublishedAt that is not NULL.
C18_PublishedHasDate ==
  \A q \in Posts : q.IsPublished = 1 => q.PublishedAt # NullId

\* A POST that publishes without a PublishedAt created a published Post
C18_Witness ==
  /\ Handled("posts", "POST")
  /\ resp.status = 200
  /\ SetsPublishedAt(req.body)
  /\ \E q \in ins.Posts : q.IsPublished = 1
  /\ Cardinality(Posts) = 2

\* A PUT with IsPublished 1 and PublishedAt '' published a Post
C18_WitnessPut ==
  /\ Handled("posts", "PUT")
  /\ resp.status = 200
  /\ req.body.IsPublished = JsonNumber(1)
  /\ req.body.PublishedAt = JsonString(<<>>)
  /\ \E q \in Posts : q.PostId = req.id /\ q.IsPublished = 1

\* C19: no two Blogs have the same Slug and no two Tags have the same Name,
\* however the store calls of concurrent requests interleave.
C19_SlugsAndNamesUnique ==
  /\ \A b1, b2 \in Blogs : b1.Slug = b2.Slug => b1 = b2
  /\ \A t1, t2 \in Tags : t1.Name = t2.Name => t1 = t2

\* Client c looked a row up, found none, and was answered with `status`
Raced(c, kind, status) ==
  /\ pending[c].pc = "done"
  /\ pending[c].req.kind = kind
  /\ pending[c].found = NoRow
  /\ pending[c].resp.status = status

\* Two POSTs of one Tag Name both found no Tag of that Name; one inserted it and
\* the other's INSERT was refused by the store
C19_Witness ==
  /\ Raced(1, "tags", 200) /\ Raced(2, "tags", 500)
  /\ pending[1].req = pending[2].req
  /\ pending[1].req.method = "POST"

\* Two ingestion requests both found no Blog; one created it and the other's
\* INSERT was refused by the store
C19_WitnessIngest ==
  Raced(1, "simple", 200) /\ Raced(2, "simple", 500)

\* Two ingestion requests with one blogUrl both found no Blog of that Url, and
\* both were answered
BothRaced ==
  /\ \A c \in Clients :
       pending[c].pc = "done" /\ pending[c].req.kind = "simple" /\ pending[c].found = NoRow
  /\ pending[1].req = pending[2].req

\* The Blogs with the Url of the request of client c
BlogsOfUrl(c) == {b \in Blogs : b.Url = pending[c].req.body.blogUrl.items}

\* C20 as stated: two ingestion requests with one blogUrl whose lookups both
\* preceded either INSERT leave two Blogs with that Url.
C20_RaceLeavesTwoBlogs ==
  BothRaced => Cardinality(BlogsOfUrl(1)) = 2

\* C20 as amended: of two such requests one creates the Blog and is answered 200
\* and the other is answered 500, its INSERT refused for the Slug; no two Blogs
\* have the same Url.
C20_RaceLeavesOneBlog ==
  /\ BothRaced =>
       /\ Cardinality(BlogsOfUrl(1)) = 1
       /\ {pending[c].resp.status : c \in Clients} = {200, 500}
  /\ \A b1, b2 \in Blogs : b1.Url = b2.Url => b1 = b2

\* Both lookups found no Blog, client 2 was answered 200 and client 1 500, and
\* the Blog has the Post of client 2 only
C20_Witness ==
  /\ BothRaced
  /\ pending[2].resp.status = 200 /\ pending[1].resp.status = 500
  /\ Cardinality(Posts) = 1

\* The ingestion request with blogUrl url must create a Blog or a default
\* Author: no Blog has the Url, or none of the Blogs that have it has an Author
MustCreate(url) ==
  \A b \in BlogsWithUrl(Blogs, url) : ~Refers(Authors, "BlogId", b.BlogId)

\* A string without ":" has no scheme, and new URL(s) throws for it
HasNoScheme(s) == ":" \notin Range(s)

\* C22: an ingestion request that passes validation, whose blogUrl does not
\* parse as a URL and that must create a Blog or a default Author, is answered
\* with the 500 creation failure and inserts no row in any table.
C22_UnparsedUrlFails ==
  [][(IngestionStep /\ ~Rejected(req'.body) /\ HasNoScheme(req'.body.blogUrl.items)
        /\ MustCreate(req'.body.blogUrl.items)) =>
       /\ resp' = ErrorResponse("Failed to create posts", 500)
       /\ StoreUnchanged
       /\ ins' = NoRows]_vars

\* No Blog has the unparsed blogUrl: new URL throws where the Blog is derived
C22_Witness ==
  /\ Ingested
  /\ req.body.blogUrl = JsonString(NotAUrl)
  /\ req.body.postTexts = JsonArray(<<TextPadded>>)
  /\ BlogsWithUrl(Blogs, NotAUrl) = {}
  /\ Blogs # {}
  /\ resp.status = 500

\* A Blog created through /api/blogs has the unparsed blogUrl and no Author:
\* new URL throws where the Author's Email is derived
C22_WitnessAuthor ==
  /\ Ingested
  /\ req.body.blogUrl = JsonString(NotAUrl)
  /\ BlogsWithUrl(Blogs, NotAUrl) # {}
  /\ Authors = {} /\ Categories = {} /\ Posts = {}
  /\ resp.status = 500

\* A Blog with the unparsed blogUrl has an Author: nothing is to be derived, and
\* the request succeeds
C22_WitnessResolved ==
  /\ Ingested
  /\ req.body.blogUrl = JsonString(NotAUrl)
  /\ resp.status = 200
  /\ resp.body.postsCreated = 1

\* The Slug the ingestion workflow derives from a blogUrl
DerivedSlug(url) == BlogSlugOf(BlogNameOf(Hostname(url)))

\* No Blog has the Url, and a Blog has the Slug derived from it
SlugTaken(url) ==
  /\ BlogsWithUrl(Blogs, url) = {}
  /\ \E b \in Blogs : b.Slug = DerivedSlug(url)

\* C25: an ingestion request with a well-formed blogUrl that is the Url of no
\* Blog, and whose derived Slug is the Slug of a Blog, is answered with the 500
\* creation failure and creates no Blog, Author, Category or Post.
C25_SlugCollisionFails ==
  [][(IngestionStep /\ ~Rejected(req'.body) /\ UrlParses(req'.body.blogUrl.items)
        /\ SlugTaken(req'.body.blogUrl.items)) =>
       /\ resp' = ErrorResponse("Failed to create posts", 500)
       /\ UNCHANGED <<Blogs, Authors, Categories, Posts>>
       /\ ins' = NoRows]_vars

\* The Blog of the host was created by an ingestion request under the other
\* scheme, and has Posts
C25_Witness ==
  /\ Ingested
  /\ req.body.blogUrl = JsonString(UrlHttpMyblog)
  /\ BlogsWithUrl(Blogs, UrlMyblog) # {}
  /\ BlogsWithUrl(Blogs, UrlHttpMyblog) = {}
  /\ Posts # {}
  /\ resp.status = 500

\* The Blog with the Slug was created through /api/blogs without a Url
C25_WitnessPosted ==
  /\ Ingested
  /\ req.body.blogUrl = JsonString(UrlMyblog)
  /\ \E b \in Blogs : b.Slug = DerivedSlug(UrlMyblog) /\ b.Url = NullStr
  /\ resp.status = 500

\* postTexts is a non-empty array of strings that are all blank after trimming
OnlyBlankTexts(body) ==
  /\ body.postTexts.tag = "array"
  /\ body.postTexts.items # <<>>
  /\ \A k \in 1..Len(body.postTexts.items) : ~IsNonBlank(body.postTexts.items[k])

\* The Blog, Author and Category of a response are rows of the store, the
\* Blog has the blogUrl, and the Author and the Category are the Blog's
ResolvedAndStored(url, data) ==
  /\ data.blog \in Blogs' /\ data.blog.Url = url
  /\ data.author \in Authors' /\ data.author.BlogId = data.blog.BlogId
  /\ data.category \in Categories' /\ data.category.BlogId = data.blog.BlogId

\* C26: an ingestion request whose postTexts is a non-empty array of blank
\* entries only is not rejected by validation and inserts no Post; when its
\* blogUrl is well-formed and no Blog of another Url has the derived Slug, it is
\* answered 200 with postsCreated 0 and no posts, and the Blog, Author and
\* Category it reports are stored, the Blog created when none had the Url.
C26_BlankTextsCreateNoPost ==
  [][(IngestionStep /\ req'.body.blogUrl.tag = "string" /\ req'.body.blogUrl.items # <<>>
        /\ OnlyBlankTexts(req'.body)) =>
       LET url == req'.body.blogUrl.items
       IN  /\ resp'.status # 400
           /\ Posts' = Posts
           /\ (UrlParses(url) /\ ~SlugTaken(url)) =>
                /\ resp'.status = 200
                /\ resp'.body.postsCreated = 0
                /\ resp'.body.posts = <<>>
                /\ ResolvedAndStored(url, resp'.body)
                /\ Cardinality(Blogs') = Cardinality(Blogs) + (IF BlogsWithUrl(Blogs, url) = {} THEN 1 ELSE 0)]_vars

\* Blank texts alone created the Blog, its Author and its Category, and no Post
C26_Witness ==
  /\ Ingested
  /\ req.body.postTexts = JsonArray(<<TextBlank, TextBlank>>)
  /\ resp.status = 200
  /\ resp.body.postsCreated = 0
  /\ ins.Blogs # {} /\ ins.Authors # {} /\ ins.Categories # {}
  /\ Posts = {}

\* Blank texts alone resolved a Blog, an Author and a Category that were there
C26_WitnessResolved ==
  /\ Ingested
  /\ req.body.postTexts = JsonArray(<<TextBlank>>)
  /\ resp.status = 200
  /\ resp.body.postsCreated = 0
  /\ ins = NoRows
  /\ Posts # {}

\* The step is a successful PUT on a published Post, with IsPublished 1 and no
\* PublishedAt in the body
RepublishStep ==
  /\ Handles("posts", "PUT")
  /\ resp'.status = 200
  /\ req'.body.IsPublished = JsonNumber(1)
  /\ req'.body.PublishedAt = Missing
  /\ \E q \in Posts : q.PostId = req'.id /\ q.IsPublished = 1

\* C23: a PUT on a Post that is already published, with IsPublished 1 and no
\* PublishedAt in the body, leaves the Post's stored PublishedAt unchanged.
C23_PublishedAtKept ==
  [][RepublishStep =>
       \A q \in Posts, u \in Posts' :
         (q.PostId = req'.id /\ u.PostId = req'.id) => u.PublishedAt = q.PublishedAt]_vars

\* C27: every Post with an AuthorId or a CategoryId names an Author or a
\* Category of the Post's own Blog.
C27_ReferencesWithinBlog ==
  \A q \in Posts :
    /\ q.AuthorId # NullId =>
         \A a \in Authors : a.AuthorId = q.AuthorId => a.BlogId = q.BlogId
    /\ q.CategoryId # NullId =>
         \A c \in Categories : c.CategoryId = q.CategoryId => c.BlogId = q.BlogId

\* s occurs in the value of a column, letters compared without regard to case
ContainsText(value, s) ==
  value # NullStr /\ IndexOf(ToLowerCase(value), ToLowerCase(s)) > 0

\* The published Posts whose Title, Content or Excerpt contains s
PublishedContaining(s) ==
  {p \in Posts : /\ p.IsPublished = 1
                 /\ \/ ContainsText(p.Title, s)
                    \/ ContainsText(p.Content, s)
                    \/ ContainsText(p.Excerpt, s)}

\* The state right after a GET of /api/posts with published=true, a search
\* word, and no other filter
Searched ==
  /\ Handled("posts", "GET")
  /\ req.body.published = JsonString(<<"t","r","u","e">>)
  /\ ~Falsy(req.body.search)
  /\ Falsy(req.body.blog) /\ Falsy(req.body.author) /\ Falsy(req.body.category)

\* C21: GET /api/posts with published=true and search=s returns the published
\* Posts whose Title, Content or Excerpt contains s, newest CreatedAt first, at
\* most limit of them (50 when not given) from position offset on (0 when not
\* given).
C21_SearchReturnsMatches ==
  Searched =>
    LET limit == ParseInt(ParamOr(req.body.limit, <<"5","0">>))
        offset == ParseInt(ParamOr(req.body.offset, <<"0">>))
    IN  \E scan \in Scans({p.PostId : p \in Posts}) :
          [k \in 1..Len(resp.body) |-> resp.body[k].post]
            = LimitOffset(OrderedPosts(PublishedContaining(req.body.search.items), scan),
                          limit, offset)

\* The rows returned are published, at most limit, newest first, and match the
\* search word as the pattern of a LIKE
C21_ReturnsLikeMatches ==
  Searched =>
    LET rows == resp.body
    IN  /\ \A k \in 1..Len(rows) :
             rows[k].post.IsPublished = 1 /\ MatchesSearch(rows[k].post, req.body.search.items)
        /\ Len(rows) <= ParseInt(ParamOr(req.body.limit, <<"5","0">>))
        /\ \A j, k \in 1..Len(rows) : j < k => rows[j].post.CreatedAt >= rows[k].post.CreatedAt

\* A search for "_" returned a Post none of whose columns contains "_"
C21_WitnessWildcard ==
  /\ Searched
  /\ req.body.search = JsonString(<<"_">>)
  /\ \E k \in 1..Len(resp.body) : resp.body[k].post \notin PublishedContaining(<<"_">>)

AuthorsOfBlog(b) == {a \in Authors : a.BlogId = b.BlogId}

CategoriesOfBlog(b) == {g \in Categories : g.BlogId = b.BlogId}

\* Client c was answered 200 for an ingestion request that resolved Blog b
Resolved(c, b) ==
  /\ pending[c].pc = "done" /\ pending[c].req.kind = "simple"
  /\ pending[c].found = b
  /\ pending[c].resp.status = 200

\* C24 as stated: however concurrent ingestion requests that resolve one Blog
\* without Author and Category interleave, one default Author and one default
\* Category are created for the Blog.
C24_OneDefaultPerBlog ==
  \A b \in Blogs :
    /\ (\E c \in Clients : Resolved(c, b)) =>
         Cardinality(AuthorsOfBlog(b)) = 1 /\ Cardinality(CategoriesOfBlog(b)) = 1
    /\ Cardinality(AuthorsOfBlog(b)) <= 1
    /\ Cardinality(CategoriesOfBlog(b)) <= 1

\* C24 as amended: at least one default Author and one default Category are
\* created for the Blog, and at most one of each per request in flight; a
\* request inserts the one its own lookup did not find, whatever the others
\* inserted since.
C24_DefaultsPerRequest ==
  /\ \A b \in Blogs :
       /\ (\E c \in Clients : Resolved(c, b)) =>
            AuthorsOfBlog(b) # {} /\ CategoriesOfBlog(b) # {}
       /\ Cardinality(AuthorsOfBlog(b)) <= Cardinality(Clients)
       /\ Cardinality(CategoriesOfBlog(b)) <= Cardinality(Clients)
  /\ \A c \in Clients :
       (pending[c].pc \in {"author", "category"} /\ pending[c].author # NoRow) =>
         pending[c].author \in AuthorsOfBlog(pending[c].found)

\* Both requests looked the Author up before either inserted one, and likewise
\* the Category: the Blog has two of each
C24_Witness ==
  /\ \A c \in Clients : Resolved(c, pending[1].found)
  /\ Cardinality(AuthorsOfBlog(pending[1].found)) = 2
  /\ Cardinality(CategoriesOfBlog(pending[1].found)) = 2

\* The Author lookups raced and the Category lookups did not: two Authors and
\* one Category
C24_WitnessAuthors ==
  /\ \A c \in Clients : Resolved(c, pending[1].found)
  /\ Cardinality(AuthorsOfBlog(pending[1].found)) = 2
  /\ Cardinality(CategoriesOfBlog(pending[1].found)) = 1

\* The second request's lookups followed the first request's inserts: one of each
C24_WitnessInTurn ==
  /\ \A c \in Clients : Resolved(c, pending[1].found)
  /\ Cardinality(AuthorsOfBlog(pending[1].found)) = 1
  /\ Cardinality(CategoriesOfBlog(pending[1].found)) = 1

====
